---- MODULE Spec2Model ----
(***************************************************************************)
(* Banking-dispute chat backend: the dialogue state machine of             *)
(* chat_handler.py (ChatHandler.process_message and its step handlers),    *)
(* the in-memory stores of database.py (Database.chat_sessions and         *)
(* Database.disputes) and the dispute creation of dispute_service.py.      *)
(*                                                                         *)
(* Encoding conventions.                                                   *)
(*  - Python str is a TLA+ string; lower(), upper(), strip(), "x in y",    *)
(*    startswith and the amount regex are computed character by character. *)
(*  - Optional[T] is a set with at most one element: None is {} and a      *)
(*    value v is {v}.                                                      *)
(*  - A dict keyed by strings is a function whose DOMAIN is the key set.   *)
(*  - dispute_form is a record of its six optional keys; a key that is     *)
(*    missing from the Python dict is None here (the DisputeForm model     *)
(*    reads a missing key as None, and no handler stores None).            *)
(*  - A float amount is the integer number of hundredths; the messages of  *)
(*    the model carry at most two decimal digits.                          *)
(***************************************************************************)
EXTENDS Integers, Sequences, FiniteSets, TLC

VARIABLES
    chat_sessions,  \* Database.chat_sessions: session_id -> session dict
    disputes,       \* Database.disputes: dispute id -> DisputeData
    last,           \* the most recent call: [op, session_id, message, context]
                    \* (for a dispute-store call, message is the dispute id)
    response,       \* what process_message returned last: None or a ChatResponse
                    \* (in SpecSessions: what the session-store call returned)
    nmsg,           \* number of process_message calls so far (bounded runs)
    nstore,         \* number of direct calls of the session store so far
    pc,             \* progress of session ScriptSid through the scripted flow
    session_keys,   \* the keys of Database.chat_sessions in dict (insertion) order
    temp_otp_storage, \* routers/auth.py temp_otp_storage: email -> OTP
    redis_otp,      \* the keys otp:{email} held by the redis server: email -> OTP
    redis_client,   \* what get_redis_client() returns: the configured client
    users           \* db.users: email -> hashed password

auth_vars == <<temp_otp_storage, redis_otp, redis_client, users>>

vars == <<chat_sessions, disputes, last, response, nmsg, nstore, pc, session_keys,
          auth_vars>>

None == {}

Some(v) == {v}

(***************************************************************************)
(* Python string operations.                                               *)
(***************************************************************************)
CharAt(s, i) == SubSeq(s, i, i)

UpperLetters == <<"A","B","C","D","E","F","G","H","I","J","K","L","M",
                  "N","O","P","Q","R","S","T","U","V","W","X","Y","Z">>

LowerLetters == <<"a","b","c","d","e","f","g","h","i","j","k","l","m",
                  "n","o","p","q","r","s","t","u","v","w","x","y","z">>

LowerChar(c) ==
    IF \E k \in 1..26 : UpperLetters[k] = c
    THEN LowerLetters[CHOOSE k \in 1..26 : UpperLetters[k] = c]
    ELSE c

UpperChar(c) ==
    IF \E k \in 1..26 : LowerLetters[k] = c
    THEN UpperLetters[CHOOSE k \in 1..26 : LowerLetters[k] = c]
    ELSE c

RECURSIVE Lower(_)
Lower(s) == IF Len(s) = 0 THEN "" ELSE LowerChar(CharAt(s, 1)) \o Lower(Tail(s))

RECURSIVE Upper(_)
Upper(s) == IF Len(s) = 0 THEN "" ELSE UpperChar(CharAt(s, 1)) \o Upper(Tail(s))

IsSpace(c) == c \in {" ", "\t", "\n", "\r"}

RECURSIVE LStrip(_)
LStrip(s) ==
    IF Len(s) > 0 /\ IsSpace(CharAt(s, 1)) THEN LStrip(Tail(s)) ELSE s

RECURSIVE RStrip(_)
RStrip(s) ==
    IF Len(s) > 0 /\ IsSpace(CharAt(s, Len(s)))
    THEN RStrip(SubSeq(s, 1, Len(s) - 1))
    ELSE s

Strip(s) == RStrip(LStrip(s))

\* Python "sub in s"
Contains(sub, s) ==
    \/ Len(sub) = 0
    \/ \E i \in 1..(Len(s) - Len(sub) + 1) : SubSeq(s, i, i + Len(sub) - 1) = sub

StartsWith(s, p) == Len(s) >= Len(p) /\ SubSeq(s, 1, Len(p)) = p

Digits == <<"0","1","2","3","4","5","6","7","8","9">>

IsDigit(c) == \E k \in 1..10 : Digits[k] = c

DigitVal(c) == (CHOOSE k \in 1..10 : Digits[k] = c) - 1

HasDigit(s) == \E i \in 1..Len(s) : IsDigit(CharAt(s, i))

RECURSIVE StrToNat(_)
StrToNat(s) ==
    IF Len(s) = 0 THEN 0
    ELSE 10 * StrToNat(SubSeq(s, 1, Len(s) - 1)) + DigitVal(CharAt(s, Len(s)))

RECURSIVE RemoveCommas(_)
RemoveCommas(s) ==
    IF Len(s) = 0 THEN ""
    ELSE IF CharAt(s, 1) = "," THEN RemoveCommas(Tail(s))
    ELSE CharAt(s, 1) \o RemoveCommas(Tail(s))

\* the longest run of digits of s that starts at position i (empty if none)
RECURSIVE DigitRun(_, _)
DigitRun(s, i) ==
    IF i <= Len(s) /\ IsDigit(CharAt(s, i))
    THEN CharAt(s, i) \o DigitRun(s, i + 1)
    ELSE ""

(***************************************************************************)
(* constants.py                                                            *)
(***************************************************************************)
BANKS == <<"State Bank of India", "HDFC Bank", "ICICI Bank", "Axis Bank",
           "Punjab National Bank", "Bank of Baroda", "Canara Bank", "Other">>

BankNames == {BANKS[i] : i \in 1..Len(BANKS)}

HelplineBanks == BankNames \ {"Other"}

BANK_HELPLINES ==
    [b \in HelplineBanks |->
        CASE b = "State Bank of India" -> "1800 1111 109"
          [] b = "HDFC Bank" -> "1800 2611 232"
          [] b = "ICICI Bank" -> "1800 2000 888"
          [] b = "Axis Bank" -> "1800 4196 4444"
          [] b = "Punjab National Bank" -> "1800 2222 244"
          [] b = "Bank of Baroda" -> "1800 2580 244"
          [] OTHER -> "1800 4250 0018"]

\* the members of class DisputeType, in definition order
DisputeType == <<"Double Debit / Duplicate Charge", "Unauthorized Transaction",
                 "Missing Refund", "Wrong Balance/Amount", "Failed Transaction",
                 "ATM Dispute", "Merchant Fraud", "Card Skimming", "Other">>

DisputeTypeValues == {DisputeType[i] : i \in 1..Len(DisputeType)}

\* dt.value.lower() and bank.lower(), member by member
DisputeTypeLower == <<Lower(DisputeType[1]), Lower(DisputeType[2]), Lower(DisputeType[3]),
                      Lower(DisputeType[4]), Lower(DisputeType[5]), Lower(DisputeType[6]),
                      Lower(DisputeType[7]), Lower(DisputeType[8]), Lower(DisputeType[9])>>

BanksLower == <<Lower(BANKS[1]), Lower(BANKS[2]), Lower(BANKS[3]), Lower(BANKS[4]),
                Lower(BANKS[5]), Lower(BANKS[6]), Lower(BANKS[7]), Lower(BANKS[8])>>

DisputeStatus == {"submitted", "under_review", "resolved", "escalated"}

Priority == {"low", "medium", "high"}

MAIN_MENU_OPTIONS == <<"Report a Dispute", "Track Existing Dispute",
                       "Get Guidance", "Emergency Help">>

GUIDANCE_TOPICS == <<"Unauthorized Transaction", "Duplicate Charge",
                     "ATM Dispute", "Merchant Issues">>

(***************************************************************************)
(* models.py: DisputeForm, DisputeData, ChatResponse; database.py: the     *)
(* session dict of create_session.                                         *)
(***************************************************************************)
EmptyDict == << >>

\* The authentication state while no auth endpoint is in use: no OTP stored,
\* no registered user, no redis client configured.
AuthIdle ==
    /\ temp_otp_storage = EmptyDict
    /\ redis_otp = EmptyDict
    /\ redis_client = "unset"
    /\ users = EmptyDict

EmptyForm ==
    [type |-> None, bank |-> None, amount |-> None, date |-> None,
     description |-> None, cardlastfour |-> None]

NewSession == [step |-> "greeting", dispute_form |-> EmptyForm, context |-> EmptyDict]

ChatResponse(text, options, action, dispute_id, context) ==
    [response |-> text, options |-> options, action |-> action,
     dispute_id |-> dispute_id, context |-> context]

\* the context dicts the handlers build: {"session_id": ...} with or without "step"
Ctx(session_id) == [session_id |-> Some(session_id), step |-> None]

CtxStep(session_id, step) == [session_id |-> Some(session_id), step |-> Some(step)]

NoCtx == [session_id |-> None, step |-> None]

\* uuid4().hex values a created record may draw; two draws of the same
\* value stand for two uuids that agree on their first eight hex digits
UuidHexPool == {"4f2a9c31d5e64b7a8c9d0e1f2a3b4c5d", "0b7e55aa93c14f0e8d21a6c4e9f01b37"}

\* DisputeData.id: "DSP" + uuid4().hex[:8].upper()
NewDisputeId(uuid_hex) == "DSP" \o Upper(SubSeq(uuid_hex, 1, 8))

\* DisputeData(...) raises a validation error when a required field is None
DisputeDataValid(form) ==
    /\ form.type # None
    /\ form.amount # None
    /\ form.date # None
    /\ form.description # None
    /\ form.bank # None
    /\ form.cardlastfour # None

TheValue(opt) == CHOOSE v \in opt : TRUE

(***************************************************************************)
(* database.py: Database                                                   *)
(***************************************************************************)
DictPut(d, k, v) == [x \in (DOMAIN d) \cup {k} |-> IF x = k THEN v ELSE d[x]]

DictDel(d, k) == [x \in (DOMAIN d) \ {k} |-> d[x]]

create_dispute_db(ds, dispute) == DictPut(ds, dispute.id, dispute)

get_dispute(ds, dispute_id) ==
    IF dispute_id \in DOMAIN ds THEN Some(ds[dispute_id]) ELSE None

update_dispute_status(ds, dispute_id, status) ==
    IF dispute_id \in DOMAIN ds
    THEN [ds EXCEPT ![dispute_id].status = status]
    ELSE ds

\* the timeline entries (the dates, offsets of createdAt, are left out)
get_dispute_timeline(ds, dispute_id) ==
    IF get_dispute(ds, dispute_id) = None THEN << >>
    ELSE LET status == ds[dispute_id].status IN
         <<[status |-> "Submitted", description |-> "Dispute submitted successfully"],
           [status |-> "Acknowledged", description |-> "Bank acknowledged receipt"]>>
         \o (IF status \in {"under_review", "resolved"}
             THEN <<[status |-> "Under Review", description |-> "Investigation started"]>>
             ELSE << >>)
         \o (IF status = "resolved"
             THEN <<[status |-> "Resolved", description |-> "Dispute resolved successfully"]>>
             ELSE << >>)

create_session(cs, session_id) == DictPut(cs, session_id, NewSession)

get_session(cs, session_id) ==
    IF session_id \in DOMAIN cs THEN Some(cs[session_id]) ELSE None

update_session(cs, session_id, session_data) == DictPut(cs, session_id, session_data)

\* a delete that keeps the session as a tombstone with step "completed"
delete_session_keeps_tombstone(cs, session_id) ==
    IF session_id \in DOMAIN cs
    THEN DictPut(cs, session_id, [cs[session_id] EXCEPT !.step = "completed"])
    ELSE cs

\* a delete that empties the whole session store
delete_session_clears_store(cs, session_id) == EmptyDict

delete_session(cs, session_id) == DictDel(cs, session_id)

\* the bool delete_session returns
delete_session_result(cs, session_id) == session_id \in DOMAIN cs

\* cleanup_old_sessions: with more than 100 sessions, the first half of the
\* keys (in dict order) is deleted; max_age_hours is not read
\* a cleanup that already evicts when the store holds 100 sessions
cleanup_old_sessions_from_100(cs, keys) ==
    IF Len(keys) >= 100
    THEN LET evicted == {keys[i] : i \in 1..(Len(keys) \div 2)}
         IN [k \in DOMAIN cs \ evicted |-> cs[k]]
    ELSE cs

cleanup_old_sessions(cs, keys) ==
    IF Len(keys) > 100
    THEN LET evicted == {keys[i] : i \in 1..(Len(keys) \div 2)}
         IN [k \in DOMAIN cs \ evicted |-> cs[k]]
    ELSE cs

\* the key order of a dict after a call that left it as cs: a deleted key
\* leaves the order, an assigned key that is new goes to the end, an
\* assigned key that exists keeps its place (a call inserts at most one key)
KeysAfter(keys, cs) ==
    LET kept == SelectSeq(keys, LAMBDA k : k \in DOMAIN cs)
        fresh == DOMAIN cs \ {keys[i] : i \in 1..Len(keys)}
    IN IF fresh = {} THEN kept ELSE Append(kept, CHOOSE k \in fresh : TRUE)

(***************************************************************************)
(* services.py: OllamaService.get_ai_response and FallbackService          *)
(***************************************************************************)
AnyIn(words, s) == \E w \in words : Contains(w, s)

FallbackService_get_response(message) ==
    LET m == Lower(message) IN
    IF AnyIn({"unauthorized", "fraud", "stolen", "hacked"}, m)
        THEN "This seems urgent! For unauthorized transactions: ..."
    ELSE IF AnyIn({"duplicate", "double", "charged twice", "same transaction"}, m)
        THEN "For duplicate charges: ..."
    ELSE IF AnyIn({"atm", "cash", "withdrawal", "dispense"}, m)
        THEN "For ATM disputes: ..."
    ELSE IF AnyIn({"refund", "return", "money back", "cancelled"}, m)
        THEN "For missing refunds: ..."
    ELSE IF AnyIn({"wrong amount", "balance", "statement", "error"}, m)
        THEN "For balance/amount disputes: ..."
    ELSE IF AnyIn({"hello", "hi", "help", "start", "support"}, m)
        THEN "Hello! I'm here to help with banking disputes. ..."
    ELSE "I understand you're facing a banking issue. For immediate help: ..."

\* what the generate call of the AI backend did
AiOutcomes == {"200", "non-200", "timeout", "exception"}

\* the text a 200 reply carries (the backend's free text, opaque here)
AiText == "<reply of the model>"

\* an AI responder that lets the exception of the backend call through
get_ai_response_propagates(message, ai) ==
    IF ai = "200" THEN AiText
    ELSE IF ai = "exception" THEN "<unhandled exception>"
    ELSE FallbackService_get_response(message)

get_ai_response(message, ai) ==
    IF ai = "200" THEN AiText ELSE FallbackService_get_response(message)

(***************************************************************************)
(* dispute_service.py: DisputeService                                      *)
(***************************************************************************)
FraudTypes == {"Unauthorized Transaction", "Merchant Fraud", "Card Skimming"}

\* amounts are hundredths: 50000 is 5000000, 10000 is 1000000
_determine_priority(form) ==
    IF form.type # None /\ TheValue(form.type) \in FraudTypes THEN "high"
    ELSE IF form.amount # None /\ TheValue(form.amount) # 0
        THEN IF TheValue(form.amount) > 50000 * 100 THEN "high"
             ELSE IF TheValue(form.amount) > 10000 * 100 THEN "medium"
             ELSE "low"
    ELSE IF form.type # None
            /\ TheValue(form.type) \in {"ATM Dispute", "Failed Transaction"}
        THEN "medium"
    ELSE "low"

\* an estimate that follows the priority alone
_get_estimated_resolution_by_priority(priority, dispute_type) ==
    IF priority = "high" THEN "3-5 business days"
    ELSE IF priority = "medium" THEN "5-7 business days"
    ELSE "7-10 business days"

_get_estimated_resolution(priority, dispute_type) ==
    IF dispute_type = "ATM Dispute" THEN "2-3 business days"
    ELSE IF priority = "high" THEN "3-5 business days"
    ELSE IF priority = "medium" THEN "5-7 business days"
    ELSE "7-10 business days"

BankContact(bank) ==
    IF bank \in DOMAIN BANK_HELPLINES THEN BANK_HELPLINES[bank]
    ELSE "Contact your bank directly"

\* a DisputeData that starts under review
NewDisputeData_under_review(form, priority, uuid_hex) ==
    [id |-> NewDisputeId(uuid_hex),
     type |-> TheValue(form.type),
     amount |-> TheValue(form.amount),
     date |-> TheValue(form.date),
     description |-> TheValue(form.description),
     status |-> "under_review",
     priority |-> priority,
     bank |-> TheValue(form.bank),
     cardlastfour |-> TheValue(form.cardlastfour)]

\* the DisputeData built by create_dispute (createdAt, a wall-clock
\* timestamp that no modelled decision reads, is left out)
NewDisputeData(form, priority, uuid_hex) ==
    [id |-> NewDisputeId(uuid_hex),
     type |-> TheValue(form.type),
     amount |-> TheValue(form.amount),
     date |-> TheValue(form.date),
     description |-> TheValue(form.description),
     status |-> "submitted",
     priority |-> priority,
     bank |-> TheValue(form.bank),
     cardlastfour |-> TheValue(form.cardlastfour)]

\* create_dispute: [ok |-> FALSE] stands for the raised exception
create_dispute(form, uuid_hex, ds) ==
    LET priority == _determine_priority(form) IN
    IF ~DisputeDataValid(form)
    THEN [ok |-> FALSE, disputes |-> ds, result |-> None]
    ELSE LET dispute_data == NewDisputeData(form, priority, uuid_hex) IN
         [ok |-> TRUE,
          disputes |-> create_dispute_db(ds, dispute_data),
          result |-> Some([dispute_id |-> dispute_data.id,
                           status |-> "created",
                           priority |-> priority,
                           estimated_resolution |->
                               _get_estimated_resolution(priority, dispute_data.type),
                           bank_contact |-> BankContact(dispute_data.bank)])]

(***************************************************************************)
(* chat_handler.py: ChatHandler.  A handler yields the set of its          *)
(* possible results, one per outcome of what it does not control (the AI   *)
(* call, the uuid a new record draws); a result is the stores as the       *)
(* handler leaves them and the ChatResponse it returns (None when the      *)
(* function returns nothing).  The session dict a handler receives is the  *)
(* very object held in Database.chat_sessions (get_session and             *)
(* create_session return it by reference), so an assignment to             *)
(* session[...] is a write to the store.                                   *)
(***************************************************************************)
Result(cs, ds, resp) == [chat_sessions |-> cs, disputes |-> ds, response |-> resp]

\* the fixed reply texts of the handlers (long texts are cut at "...", the
\* values an f-string inserts are written {name})
GreetingText ==
    "Hello! I'm your Banking Dispute Assistant. ... How can I assist you today?"

TrackPromptText ==
    "Please provide your dispute ID (starts with DSP) or reference number:"

GuidanceText ==
    "Here are some helpful resources for banking disputes: ..."

EmergencyText ==
    "Emergency Actions for Banking Fraud: ... Which bank do you need help with?"

CreatedText ==
    "Dispute Created Successfully! Dispute ID: {dispute_id} ..."

CreateErrorText ==
    "I encountered an error creating your dispute. Please try again or contact your bank directly."

RetryOptions == <<"Try Again", "Emergency Help">>

GreetingWords == {"hello", "hi", "help", "start"}

\* a greeting step that stores the step main_menu it reports in its context
_handle_greeting_advances(message, session_id, cs, ds) ==
    IF AnyIn(GreetingWords, message)
    THEN {Result(update_session(cs, session_id,
                     [cs[session_id] EXCEPT !.step = "main_menu"]),
                 ds,
                 Some(ChatResponse(
                     GreetingText,
                     Some(MAIN_MENU_OPTIONS), None, None, CtxStep(session_id, "main_menu"))))}
    ELSE {Result(cs, ds, Some(ChatResponse(
             get_ai_response(message, ai),
             Some(MAIN_MENU_OPTIONS), None, None, Ctx(session_id)))) : ai \in AiOutcomes}

_handle_greeting(message, session_id, cs, ds) ==
    IF AnyIn(GreetingWords, message)
    THEN {Result(cs, ds, Some(ChatResponse(
             GreetingText,
             Some(MAIN_MENU_OPTIONS), None, None, CtxStep(session_id, "main_menu"))))}
    ELSE {Result(cs, ds, Some(ChatResponse(
             get_ai_response(message, ai),
             Some(MAIN_MENU_OPTIONS), None, None, Ctx(session_id)))) : ai \in AiOutcomes}

\* a main menu that starts the report with an empty form
_handle_main_menu_resets(message, session_id, session, cs, ds) ==
    IF Contains("report a dispute", message)
    THEN {Result(update_session(cs, session_id,
                     [session EXCEPT !.step = "dispute_type",
                                     !.dispute_form = EmptyForm]),
                 ds,
                 Some(ChatResponse(
                     "I'll help you report a dispute. What type of issue are you experiencing?",
                     Some(DisputeType), None, None, Ctx(session_id))))}
    ELSE _handle_greeting(message, session_id, cs, ds)

_handle_main_menu(message, session_id, session, cs, ds) ==
    IF Contains("report a dispute", message)
    THEN {Result(update_session(cs, session_id, [session EXCEPT !.step = "dispute_type"]),
                 ds,
                 Some(ChatResponse(
                     "I'll help you report a dispute. What type of issue are you experiencing?",
                     Some(DisputeType), None, None, Ctx(session_id))))}
    ELSE _handle_greeting(message, session_id, cs, ds)

_handle_track_request(session_id, session, cs, ds) ==
    {Result(update_session(cs, session_id, [session EXCEPT !.step = "track_dispute"]),
            ds,
            Some(ChatResponse(
                TrackPromptText,
                None, None, None, Ctx(session_id))))}

\* a guidance branch that asks the AI responder for its text
_handle_guidance_request_ai(cs, ds) ==
    {Result(cs, ds, Some(ChatResponse(
         get_ai_response("get guidance", ai),
         Some(GUIDANCE_TOPICS), None, None, NoCtx))) : ai \in AiOutcomes}

_handle_guidance_request(cs, ds) ==
    {Result(cs, ds, Some(ChatResponse(
         GuidanceText,
         Some(GUIDANCE_TOPICS), None, None, NoCtx)))}

_handle_emergency_help(cs, ds) ==
    {Result(cs, ds, Some(ChatResponse(
         EmergencyText,
         Some(BANKS), None, None, NoCtx)))}

\* a type matcher that only looks for the display string in the message
SelectedType_contained_only(message) ==
    LET hits == {i \in 1..Len(DisputeType) : Contains(DisputeTypeLower[i], message)}
    IN IF hits = {} THEN None
       ELSE Some(DisputeType[CHOOSE i \in hits : \A j \in hits : i <= j])

\* the first member dt, in definition order, with
\* dt.value.lower() in message or message in dt.value.lower()
SelectedType(message) ==
    LET hits == {i \in 1..Len(DisputeType) :
                    \/ Contains(DisputeTypeLower[i], message)
                    \/ Contains(message, DisputeTypeLower[i])}
    IN IF hits = {} THEN None
       ELSE Some(DisputeType[CHOOSE i \in hits : \A j \in hits : i <= j])

\* a type step that falls back to type Other when no type matches
_handle_dispute_type_selection_defaults(message, session_id, session, cs, ds) ==
    LET selected_type == IF SelectedType(message) # None
                         THEN SelectedType(message) ELSE Some("Other") IN
    {Result(update_session(cs, session_id,
                [session EXCEPT !.dispute_form.type = selected_type,
                                !.step = "bank_selection"]),
            ds,
            Some(ChatResponse(
                "You've selected: **{type}** Which bank is involved in this dispute?",
                Some(BANKS), None, None, Ctx(session_id))))}

_handle_dispute_type_selection(message, session_id, session, cs, ds) ==
    LET selected_type == SelectedType(message) IN
    IF selected_type # None
    THEN {Result(update_session(cs, session_id,
                     [session EXCEPT !.dispute_form.type = selected_type,
                                     !.step = "bank_selection"]),
                 ds,
                 Some(ChatResponse(
                     "You've selected: **{type}** Which bank is involved in this dispute?",
                     Some(BANKS), None, None, Ctx(session_id))))}
    ELSE {Result(cs, ds, Some(ChatResponse(
              "Please select one of the dispute types from the options below:",
              Some(DisputeType), None, None, Ctx(session_id))))}

\* a bank matcher that takes the last matching bank of BANKS, not the first
SelectedBank_last(message) ==
    LET hits == {i \in 1..Len(BANKS) : Contains(BanksLower[i], message)}
    IN IF hits = {} THEN None
       ELSE Some(BANKS[CHOOSE i \in hits : \A j \in hits : i >= j])

\* next(bank for bank in BANKS if bank.lower() in message), None if there is none
SelectedBank(message) ==
    LET hits == {i \in 1..Len(BANKS) : Contains(BanksLower[i], message)}
    IN IF hits = {} THEN None
       ELSE Some(BANKS[CHOOSE i \in hits : \A j \in hits : i <= j])

\* without a matching bank the function falls off its end: it returns None
_handle_bank_selection(message, session_id, session, cs, ds) ==
    LET selected_bank == SelectedBank(message) IN
    IF selected_bank # None
    THEN {Result(update_session(cs, session_id,
                     [session EXCEPT !.dispute_form.bank = selected_bank,
                                     !.step = "amount_input"]),
                 ds,
                 Some(ChatResponse(
                     "Bank: **{bank}** Helpline: {helpline} What is the disputed amount? ...",
                     None, None, None, Ctx(session_id))))}
    ELSE {Result(cs, ds, None)}

\* an extractor that takes the digits before the decimal point only
AmountMatch_whole_only(message) ==
    LET s == RemoveCommas(message)
        starts == {i \in 1..Len(s) : IsDigit(CharAt(s, i))}
    IN IF starts = {} THEN None
       ELSE LET p == CHOOSE i \in starts : \A j \in starts : i <= j
            IN Some(StrToNat(DigitRun(s, p)) * 100)

\* re.search(r'[\d,]+\.?\d*', message.replace(',', '')) and float() of the
\* match, in hundredths: None when the message holds no digit
AmountMatch(message) ==
    LET s == RemoveCommas(message)
        starts == {i \in 1..Len(s) : IsDigit(CharAt(s, i))}
    IN IF starts = {} THEN None
       ELSE LET p == CHOOSE i \in starts : \A j \in starts : i <= j
                whole == DigitRun(s, p)
                q == p + Len(whole)
                frac == IF q <= Len(s) /\ CharAt(s, q) = "." THEN DigitRun(s, q + 1) ELSE ""
                cents == IF Len(frac) = 0 THEN 0
                         ELSE IF Len(frac) = 1 THEN 10 * DigitVal(frac)
                         ELSE StrToNat(SubSeq(frac, 1, 2))
            IN Some(StrToNat(whole) * 100 + cents)

_handle_amount_input(message, session_id, session, cs, ds) ==
    LET amount_match == AmountMatch(message) IN
    IF amount_match # None
    THEN {Result(update_session(cs, session_id,
                     [session EXCEPT !.dispute_form.amount = amount_match,
                                     !.step = "date_input"]),
                 ds,
                 Some(ChatResponse(
                     "Amount: {amount} When did this transaction occur? ...",
                     None, None, None, Ctx(session_id))))}
    ELSE {Result(cs, ds, Some(ChatResponse(
              "Please enter a valid amount in numbers (e.g., 5000 or 1500.50)",
              None, None, None, Ctx(session_id))))}

\* a date step that accepts every message holding a digit
_handle_date_input_digit_only(message, session_id, session, cs, ds) ==
    IF HasDigit(message)
    THEN {Result(update_session(cs, session_id,
                     [session EXCEPT !.dispute_form.date = Some(message),
                                     !.step = "description_input"]),
                 ds,
                 Some(ChatResponse(
                     "Date: {date} Please provide a brief description of the dispute and what happened:",
                     None, None, None, Ctx(session_id))))}
    ELSE {Result(cs, ds, Some(ChatResponse(
              "Please provide a valid date (e.g., 2024-01-15, 15/01/2024, or 15 Jan 2024)",
              None, None, None, Ctx(session_id))))}

_handle_date_input(message, session_id, session, cs, ds) ==
    IF HasDigit(message) /\ Len(message) >= 8
    THEN {Result(update_session(cs, session_id,
                     [session EXCEPT !.dispute_form.date = Some(message),
                                     !.step = "description_input"]),
                 ds,
                 Some(ChatResponse(
                     "Date: {date} Please provide a brief description of the dispute and what happened:",
                     None, None, None, Ctx(session_id))))}
    ELSE {Result(cs, ds, Some(ChatResponse(
              "Please provide a valid date (e.g., 2024-01-15, 15/01/2024, or 15 Jan 2024)",
              None, None, None, Ctx(session_id))))}

_handle_description_input(message, session_id, session, cs, ds) ==
    {Result(update_session(cs, session_id,
                [session EXCEPT !.dispute_form.description = Some(message),
                                !.step = "card_info"]),
            ds,
            Some(ChatResponse(
                "Please provide the last 4 digits of the card involved (e.g., 1234). If not card-related, type 'N/A':",
                None, None, None, Ctx(session_id))))}

\* a card_info handler that keeps the session after a successful creation
CardInfoResult_keeps_session(message, session_id, session, uuid_hex, cs, ds) ==
    LET card == IF Upper(message) # "N/A" THEN message ELSE "N/A"
        form == [session.dispute_form EXCEPT !.cardlastfour = Some(card)]
        cs1 == DictPut(cs, session_id, [session EXCEPT !.dispute_form = form])
        created == create_dispute(form, uuid_hex, ds)
    IN IF created.ok
       THEN Result(cs1,
                   created.disputes,
                   Some(ChatResponse(
                       CreatedText,
                       None, Some("dispute_created"),
                       Some(TheValue(created.result).dispute_id), NoCtx)))
       ELSE Result(cs1, ds, Some(ChatResponse(
                CreateErrorText,
                Some(RetryOptions), None, None, NoCtx)))

\* a card_info handler that clears the session whether or not the dispute
\* was created
CardInfoResult_deletes_on_failure(message, session_id, session, uuid_hex, cs, ds) ==
    LET card == IF Upper(message) # "N/A" THEN message ELSE "N/A"
        form == [session.dispute_form EXCEPT !.cardlastfour = Some(card)]
        cs1 == DictPut(cs, session_id, [session EXCEPT !.dispute_form = form])
        created == create_dispute(form, uuid_hex, ds)
    IN IF created.ok
       THEN Result(delete_session(cs1, session_id),
                   created.disputes,
                   Some(ChatResponse(
                       CreatedText,
                       None, Some("dispute_created"),
                       Some(TheValue(created.result).dispute_id), NoCtx)))
       ELSE Result(delete_session(cs1, session_id), ds, Some(ChatResponse(
                CreateErrorText,
                Some(RetryOptions), None, None, NoCtx)))

\* a card_info handler whose success reply carries no action
CardInfoResult_no_action(message, session_id, session, uuid_hex, cs, ds) ==
    LET card == IF Upper(message) # "N/A" THEN message ELSE "N/A"
        form == [session.dispute_form EXCEPT !.cardlastfour = Some(card)]
        cs1 == DictPut(cs, session_id, [session EXCEPT !.dispute_form = form])
        created == create_dispute(form, uuid_hex, ds)
    IN IF created.ok
       THEN Result(delete_session(cs1, session_id),
                   created.disputes,
                   Some(ChatResponse(
                       CreatedText,
                       None, None,
                       Some(TheValue(created.result).dispute_id), NoCtx)))
       ELSE Result(cs1, ds, Some(ChatResponse(
                CreateErrorText,
                Some(RetryOptions), None, None, NoCtx)))

\* One result of _handle_card_info, for the uuid the new record draws.
\* The first statement writes cardlastfour into the stored session (the
\* dict is shared with the store) before dispute creation is tried.
CardInfoResult(message, session_id, session, uuid_hex, cs, ds) ==
    LET card == IF Upper(message) # "N/A" THEN message ELSE "N/A"
        form == [session.dispute_form EXCEPT !.cardlastfour = Some(card)]
        cs1 == DictPut(cs, session_id, [session EXCEPT !.dispute_form = form])
        created == create_dispute(form, uuid_hex, ds)
    IN IF created.ok
       THEN Result(delete_session(cs1, session_id),
                   created.disputes,
                   Some(ChatResponse(
                       CreatedText,
                       None, Some("dispute_created"),
                       Some(TheValue(created.result).dispute_id), NoCtx)))
       ELSE Result(cs1, ds, Some(ChatResponse(
                CreateErrorText,
                Some(RetryOptions), None, None, NoCtx)))

\* a card_info handler that hands the form to dispute creation twice
_handle_card_info_twice(message, session_id, session, cs, ds) ==
    {LET first == CardInfoResult(message, session_id, session, u, cs, ds)
     IN CardInfoResult(message, session_id, session, v, cs, first.disputes) :
        u \in UuidHexPool, v \in UuidHexPool}

_handle_card_info(message, session_id, session, cs, ds) ==
    {CardInfoResult(message, session_id, session, uuid_hex, cs, ds) :
        uuid_hex \in UuidHexPool}

\* dispute.status.title().replace('_', ' ')
StatusTitle(status) ==
    CASE status = "submitted" -> "Submitted"
      [] status = "under_review" -> "Under Review"
      [] status = "resolved" -> "Resolved"
      [] status = "escalated" -> "Escalated"

\* the reply for a dispute that was found (the details after the status
\* line are cut)
TrackFoundText(status) ==
    "Dispute Status: " \o StatusTitle(status) \o " ... Your dispute is being processed."

\* a tracking step that looks up every input starting with DSP
_handle_dispute_tracking_any_length(message, cs, ds) ==
    LET dispute_id == Strip(Upper(message)) IN
    IF StartsWith(dispute_id, "DSP")
    THEN IF get_dispute(ds, dispute_id) # None
         THEN {Result(cs, ds, Some(ChatResponse(
                   TrackFoundText(TheValue(get_dispute(ds, dispute_id)).status),
                   None, None, None, NoCtx)))}
         ELSE {Result(cs, ds, Some(ChatResponse(
                   "Dispute ID not found. Please check the ID and try again, or contact your bank directly.",
                   None, None, None, NoCtx)))}
    ELSE {Result(cs, ds, Some(ChatResponse(
              "Please provide a valid dispute ID (format: DSP12345678) or reference number.",
              None, None, None, NoCtx)))}

_handle_dispute_tracking(message, cs, ds) ==
    LET dispute_id == Strip(Upper(message)) IN
    IF StartsWith(dispute_id, "DSP") /\ Len(dispute_id) = 11
    THEN IF get_dispute(ds, dispute_id) # None
         THEN {Result(cs, ds, Some(ChatResponse(
                   TrackFoundText(TheValue(get_dispute(ds, dispute_id)).status),
                   None, None, None, NoCtx)))}
         ELSE {Result(cs, ds, Some(ChatResponse(
                   "Dispute ID not found. Please check the ID and try again, or contact your bank directly.",
                   None, None, None, NoCtx)))}
    ELSE {Result(cs, ds, Some(ChatResponse(
              "Please provide a valid dispute ID (format: DSP12345678) or reference number.",
              None, None, None, NoCtx)))}

\* the reply of the except clause of process_message
TechnicalIssue ==
    ChatResponse(
        "I apologize for the technical issue. Please try again or contact your bank directly for immediate assistance.",
        Some(RetryOptions), None, None, NoCtx)

\* chat_request.message.lower().strip()
Normalise(raw) == Strip(Lower(raw))

\* process_message.  raw is chat_request.message; context is
\* chat_request.context (None when the client sends null: merging it into
\* the session context raises, after the session was created).
process_message(session_id, raw, context, cs, ds) ==
    LET message == Normalise(raw)
        cs1 == IF get_session(cs, session_id) = None
               THEN create_session(cs, session_id)
               ELSE cs
        session == cs1[session_id]
        step == session.step
    IN IF context = None THEN {Result(cs1, ds, Some(TechnicalIssue))}
       ELSE IF step = "greeting"
           THEN _handle_greeting(message, session_id, cs1, ds)
       ELSE IF Contains("report a dispute", message) \/ step = "main_menu"
           THEN _handle_main_menu(message, session_id, session, cs1, ds)
       ELSE IF Contains("track existing dispute", message)
           THEN _handle_track_request(session_id, session, cs1, ds)
       ELSE IF Contains("get guidance", message)
           THEN _handle_guidance_request(cs1, ds)
       ELSE IF Contains("emergency help", message)
           THEN _handle_emergency_help(cs1, ds)
       ELSE IF step = "dispute_type"
           THEN _handle_dispute_type_selection(message, session_id, session, cs1, ds)
       ELSE IF step = "bank_selection"
           THEN _handle_bank_selection(message, session_id, session, cs1, ds)
       ELSE IF step = "amount_input"
           THEN _handle_amount_input(message, session_id, session, cs1, ds)
       ELSE IF step = "date_input"
           THEN _handle_date_input(message, session_id, session, cs1, ds)
       ELSE IF step = "description_input"
           THEN _handle_description_input(message, session_id, session, cs1, ds)
       ELSE IF step = "card_info"
           THEN _handle_card_info(message, session_id, session, cs1, ds)
       ELSE IF step = "track_dispute"
           THEN _handle_dispute_tracking(message, cs1, ds)
       ELSE {Result(cs1, ds, Some(ChatResponse(
                 get_ai_response(raw, ai), None, None, None, Ctx(session_id)))) :
                 ai \in AiOutcomes}

(***************************************************************************)
(* The inputs of the model.                                                *)
(***************************************************************************)
\* the session id of the seeded runs, and the session ids of the runs that
\* start from the empty store
SessionIds == {"s1"}

FlowSessionIds == {"s1", "s2"}

\* chat_request.context: a dict, or None when the client sends null
RequestContexts == {Some(EmptyDict), None}

Messages ==
    {"Hello", "Report a Dispute", "Track Existing Dispute", "Get Guidance",
     "Emergency Help", "ATM Dispute", "HDFC Bank", "icici bank or hdfc bank",
     "5000", "2024-01-15", "Test Issue", "1234", "N/A", " DSP4F2A9C31 "}

Steps == {"greeting", "main_menu", "dispute_type", "bank_selection", "amount_input",
          "date_input", "description_input", "card_info", "track_dispute"}

\* the form after the first k fields were collected with the answers
\* ATM Dispute, HDFC Bank, 5000, 2024-01-15, test issue
FormAfter(k) ==
    [type |-> IF k >= 1 THEN Some("ATM Dispute") ELSE None,
     bank |-> IF k >= 2 THEN Some("HDFC Bank") ELSE None,
     amount |-> IF k >= 3 THEN Some(500000) ELSE None,
     date |-> IF k >= 4 THEN Some("2024-01-15") ELSE None,
     description |-> IF k >= 5 THEN Some("test issue") ELSE None,
     cardlastfour |-> None]

Session(step, form) == [step |-> step, dispute_form |-> form, context |-> EmptyDict]

\* the session dicts a caller of Database.update_session writes: every step
\* with the form collected up to it, a card_info session whose form lacks
\* the amount, and a step name the router does not know
SeedSessions ==
    {Session("greeting", FormAfter(0)),
     Session("main_menu", FormAfter(0)),
     Session("dispute_type", FormAfter(0)),
     Session("bank_selection", FormAfter(1)),
     Session("amount_input", FormAfter(2)),
     Session("date_input", FormAfter(3)),
     Session("description_input", FormAfter(4)),
     Session("card_info", FormAfter(5)),
     Session("card_info", [FormAfter(5) EXCEPT !.amount = None]),
     Session("track_dispute", FormAfter(0)),
     Session("completed", FormAfter(0))}

\* bound on the number of process_message calls of a run
MaxMessages == 2

\* bound on the number of direct session-store calls of a run
MaxStoreCalls == 1

(***************************************************************************)
(* Actions                                                                 *)
(***************************************************************************)
NoCall == [op |-> "none", session_id |-> "", message |-> "", context |-> None]

ProcessMessage(session_id, raw, context) ==
    \E r \in process_message(session_id, raw, context, chat_sessions, disputes) :
        /\ chat_sessions' = r.chat_sessions
        /\ disputes' = r.disputes
        /\ response' = r.response
        /\ session_keys' = KeysAfter(session_keys, r.chat_sessions)
        /\ last' = [op |-> "process_message", session_id |-> session_id,
                    message |-> raw, context |-> context]

\* POST /api/chat and the websocket loop: one message through process_message
Chat ==
    \E session_id \in SessionIds, raw \in Messages, context \in RequestContexts :
        /\ nmsg < MaxMessages
        /\ ProcessMessage(session_id, raw, context)
        /\ nmsg' = nmsg + 1
        /\ UNCHANGED <<nstore, pc, auth_vars>>

\* Database.update_session called directly on the store
UpdateSession ==
    \E session_id \in SessionIds, session_data \in SeedSessions :
        /\ nstore < MaxStoreCalls
        /\ nstore' = nstore + 1
        /\ chat_sessions' = update_session(chat_sessions, session_id, session_data)
        /\ last' = [NoCall EXCEPT !.op = "update_session", !.session_id = session_id]
        /\ response' = None
        /\ session_keys' = KeysAfter(session_keys, chat_sessions')
        /\ UNCHANGED <<disputes, nmsg, pc, auth_vars>>

\* Database.create_session called directly on the store
CreateSession ==
    \E session_id \in SessionIds :
        /\ nstore < MaxStoreCalls
        /\ nstore' = nstore + 1
        /\ chat_sessions' = create_session(chat_sessions, session_id)
        /\ last' = [NoCall EXCEPT !.op = "create_session", !.session_id = session_id]
        /\ response' = None
        /\ session_keys' = KeysAfter(session_keys, chat_sessions')
        /\ UNCHANGED <<disputes, nmsg, pc, auth_vars>>

\* Database.delete_session called directly on the store
DeleteSession ==
    \E session_id \in SessionIds :
        /\ nstore < MaxStoreCalls
        /\ nstore' = nstore + 1
        /\ chat_sessions' = delete_session(chat_sessions, session_id)
        /\ last' = [NoCall EXCEPT !.op = "delete_session", !.session_id = session_id]
        /\ response' = None
        /\ session_keys' = KeysAfter(session_keys, chat_sessions')
        /\ UNCHANGED <<disputes, nmsg, pc, auth_vars>>

Init ==
    /\ AuthIdle
    /\ chat_sessions = EmptyDict
    /\ disputes = EmptyDict
    /\ last = NoCall
    /\ response = None
    /\ nmsg = 0
    /\ nstore = 0
    /\ pc = -1
    /\ session_keys = << >>

Next == Chat \/ UpdateSession \/ CreateSession \/ DeleteSession

Spec == Init /\ [][Next]_vars

(***************************************************************************)
(* Runs from the empty stores in which clients only send chat messages.    *)
(* pc follows the messages of session ScriptSid: it is k after exactly the *)
(* first k messages of the scripted flow (hello, report a dispute, a type, *)
(* a bank, 5000, 2024-01-15, test issue, 1234) and -1 once the session     *)
(* received anything else.                                                 *)
(***************************************************************************)
Script == <<{"hello"}, {"report a dispute"}, DisputeTypeValues, BankNames,
            {"5000"}, {"2024-01-15"}, {"test issue"}, {"1234"}>>

FlowMessages == UNION {Script[i] : i \in 1..Len(Script)}

ScriptSid == "s1"

ScriptNext(p, session_id, raw, context) ==
    IF session_id # ScriptSid THEN p
    ELSE IF p >= 0 /\ p < Len(Script) /\ raw \in Script[p + 1] /\ context # None
        THEN p + 1
    ELSE -1

FlowChat ==
    \E session_id \in FlowSessionIds, raw \in FlowMessages, context \in RequestContexts :
        /\ ProcessMessage(session_id, raw, context)
        /\ pc' = ScriptNext(pc, session_id, raw, context)
        /\ UNCHANGED <<nmsg, nstore, auth_vars>>

InitFlow ==
    /\ AuthIdle
    /\ chat_sessions = EmptyDict
    /\ disputes = EmptyDict
    /\ last = NoCall
    /\ response = None
    /\ nmsg = 0
    /\ nstore = 0
    /\ pc = 0
    /\ session_keys = << >>

SpecFlow == InitFlow /\ [][FlowChat]_vars

(***************************************************************************)
(* Properties.  In Spec exactly the process_message steps increase nmsg;   *)
(* an action property reads the request of the step from last', the       *)
(* stores before it from the unprimed and after it from the primed         *)
(* variables.                                                              *)
(***************************************************************************)
ChatStep == nmsg' = nmsg + 1

\* the step get_session finds for the id, "absent" for an unseen id
StoredStep(cs, session_id) ==
    IF session_id \in DOMAIN cs THEN cs[session_id].step ELSE "absent"

HexUpper == {"0","1","2","3","4","5","6","7","8","9","A","B","C","D","E","F"}

IsDisputeIdFormat(id) ==
    /\ Len(id) = 11
    /\ SubSeq(id, 1, 3) = "DSP"
    /\ \A i \in 4..11 : CharAt(id, i) \in HexUpper

\* the replies get_ai_response can give: the model's text or a fallback text
AiReplies == {AiText} \cup {FallbackService_get_response(m) : m \in Messages}

\* C1: from an unseen session id, after exactly the messages hello, report a
\* dispute, a valid type, a valid bank, 5000, 2024-01-15, test issue, 1234
\* there is exactly one dispute record, its id is DSP + 8 uppercase hex
\* digits, and get_session of the session id is absent.
C1_ScriptedFlowCreatesOneDispute ==
    pc = Len(Script) =>
        /\ Cardinality(DOMAIN disputes) = 1
        /\ \A id \in DOMAIN disputes : IsDisputeIdFormat(id)
        /\ get_session(chat_sessions, ScriptSid) = None

\* C2: for a stored session at step greeting, a message with a greeting
\* keyword sets the stored step to main_menu and returns the main-menu
\* options; a message without one gets the AI responder's reply with the
\* main-menu options and leaves the step at greeting.
C2_GreetingStep ==
    [][(/\ ChatStep
        /\ last'.context # None
        /\ StoredStep(chat_sessions, last'.session_id) = "greeting")
       => LET sid == last'.session_id
              message == Normalise(last'.message)
          IN /\ response' # None
             /\ \A r \in response' : r.options = Some(MAIN_MENU_OPTIONS)
             /\ IF AnyIn(GreetingWords, message)
                THEN StoredStep(chat_sessions', sid) = "main_menu"
                ELSE /\ StoredStep(chat_sessions', sid) = "greeting"
                     /\ \A r \in response' : r.response \in AiReplies]_vars

\* the step's reply reports a created dispute whose record is in the store
Persisted ==
    \E r \in response' :
        /\ r.action = Some("dispute_created")
        /\ r.dispute_id # None
        /\ TheValue(r.dispute_id) \in DOMAIN disputes'

\* the ids whose record the step wrote or changed
WrittenIds ==
    {id \in DOMAIN disputes' : id \notin DOMAIN disputes \/ disputes'[id] # disputes[id]}

TriggerPhrases ==
    {"report a dispute", "track existing dispute", "get guidance", "emergency help"}

\* C3: a process_message step leaves the session of its session id absent
\* if and only if the session was at step card_info before the step and the
\* dispute record was persisted: a message at any other step does not
\* delete the session, a failed creation does not delete it, a persisted
\* creation always does.
C3_SessionDeletedIffPersisted ==
    [][ChatStep =>
        LET sid == last'.session_id IN
        /\ (sid \notin DOMAIN chat_sessions')
               <=> (StoredStep(chat_sessions, sid) = "card_info" /\ Persisted)
        /\ Persisted => sid \notin DOMAIN chat_sessions']_vars

C3_Witness_DeletedAfterCreation ==
    /\ last.op = "process_message"
    /\ \E r \in response : r.action = Some("dispute_created") /\ r.dispute_id \subseteq DOMAIN disputes
    /\ last.session_id \notin DOMAIN chat_sessions
    /\ nstore = 1

\* C4: one process_message step writes at most one dispute record and
\* removes none; after a step that created a record the session is absent;
\* a message for an absent session only creates the fresh greeting session
\* and a message for a greeting session leaves it at greeting, and neither
\* writes a dispute record - so no number of further messages with the same
\* session id (a re-send of the final message included) adds a record.
C4_SingleShotCreation ==
    [][ChatStep =>
        LET sid == last'.session_id IN
        /\ DOMAIN disputes \subseteq DOMAIN disputes'
        /\ Cardinality(WrittenIds) <= 1
        /\ Persisted => sid \notin DOMAIN chat_sessions'
        /\ StoredStep(chat_sessions, sid) \in {"absent", "greeting"}
              => /\ disputes' = disputes
                 /\ StoredStep(chat_sessions', sid) = "greeting"]_vars

C4_Witness_ResendAfterCreation ==
    /\ nmsg = 2
    /\ last.op = "process_message"
    /\ last.message = "1234"
    /\ last.context # None
    /\ Cardinality(DOMAIN disputes) = 1
    /\ \A id \in DOMAIN disputes : disputes[id].cardlastfour = "1234"
    /\ chat_sessions = [s \in {last.session_id} |-> NewSession]

\* the priority the ordered rules give (amounts in hundredths)
OrderedRulesPriority(type, amount) ==
    IF type \in {"Unauthorized Transaction", "Merchant Fraud", "Card Skimming"} THEN "high"
    ELSE IF amount > 50000 * 100 THEN "high"
    ELSE IF amount > 10000 * 100 THEN "medium"
    ELSE IF type \in {"ATM Dispute", "Failed Transaction"} THEN "medium"
    ELSE "low"

\* C5: the priority of every dispute record is the result of the ordered
\* first-match rules: fraud types HIGH, else amount > 50000 HIGH, else
\* amount > 10000 MEDIUM, else ATM Dispute / Failed Transaction MEDIUM, else
\* LOW; an ATM Dispute of at most 10000 gets MEDIUM.
C5_PriorityFollowsOrderedRules ==
    \A id \in DOMAIN disputes :
        disputes[id].priority =
            OrderedRulesPriority(disputes[id].type, disputes[id].amount)

\* C6: for a stored session at any of the nine steps, a message containing
\* 'track existing dispute' sets the stored step to track_dispute and the
\* reply asks for a dispute ID.
C6_TrackOverridesStep ==
    [][(/\ ChatStep
        /\ last'.context # None
        /\ StoredStep(chat_sessions, last'.session_id) \in Steps
        /\ Contains("track existing dispute", Normalise(last'.message)))
       => /\ StoredStep(chat_sessions', last'.session_id) = "track_dispute"
          /\ response' # None
          /\ \A r \in response' : r.response = TrackPromptText]_vars

\* C7: for a stored session at any step, a message containing 'get
\* guidance' or 'emergency help' leaves the session store and the dispute
\* store as they were, and the reply is the guidance text, respectively the
\* emergency text.
C7_InformationalBranches ==
    [][(/\ ChatStep
        /\ last'.context # None
        /\ StoredStep(chat_sessions, last'.session_id) \in Steps
        /\ \/ Contains("get guidance", Normalise(last'.message))
           \/ Contains("emergency help", Normalise(last'.message)))
       => /\ chat_sessions' = chat_sessions
          /\ disputes' = disputes
          /\ response' # None
          /\ \A r \in response' :
                r.response = IF Contains("get guidance", Normalise(last'.message))
                             THEN GuidanceText ELSE EmergencyText]_vars

\* C8: every process_message call returns a ChatResponse, and the replies
\* of the failure paths (the technical-issue apology, the creation error)
\* carry options for the next action.
C8_ProcessMessageTotal ==
    last.op = "process_message" =>
        /\ response # None
        /\ \A r \in response :
              r.response \in {TechnicalIssue.response, CreateErrorText}
                  => r.options # None

\* C9: when the card_info handler processes a message and the dispute is
\* not created, the session is still stored with step card_info, the
\* dispute store is unchanged, and the reply is the creation-error message
\* with the options Try Again and Emergency Help.
C9_FailedCreationKeepsSession ==
    [][(/\ ChatStep
        /\ last'.context # None
        /\ StoredStep(chat_sessions, last'.session_id) = "card_info"
        /\ ~AnyIn(TriggerPhrases, Normalise(last'.message))
        /\ ~Persisted)
       => /\ StoredStep(chat_sessions', last'.session_id) = "card_info"
          /\ disputes' = disputes
          /\ response' = Some(ChatResponse(CreateErrorText, Some(RetryOptions),
                                           None, None, NoCtx))]_vars

C9_Witness_FailedCreation ==
    /\ last.op = "process_message"
    /\ last.context # None
    /\ \E r \in response : r.response = CreateErrorText /\ r.options = Some(RetryOptions)
    /\ StoredStep(chat_sessions, last.session_id) = "card_info"
    /\ chat_sessions[last.session_id].dispute_form.amount = None
    /\ disputes = EmptyDict

\* C10 as stated: for a session at step bank_selection, every supported bank
\* whose name the message contains (in any letter case) is the bank the
\* step selects: dispute_form.bank is that bank and the step is amount_input.
C10_EveryContainedBankSelected ==
    [][(/\ ChatStep
        /\ last'.context # None
        /\ StoredStep(chat_sessions, last'.session_id) = "bank_selection")
       => \A i \in 1..Len(BANKS) :
             Contains(BanksLower[i], Normalise(last'.message))
                 => /\ StoredStep(chat_sessions', last'.session_id) = "amount_input"
                    /\ chat_sessions'[last'.session_id].dispute_form.bank
                           = Some(BANKS[i])]_vars

\* C10 amended: for a session at step bank_selection, a request with a
\* context dict whose message contains no branch trigger phrase and the
\* name of at least one supported bank (in any letter case) selects the
\* first such bank in BANKS order - exactly that bank when it is the only
\* one named: dispute_form.bank is that bank and the step is amount_input.
C10_FirstContainedBankSelected ==
    [][(/\ ChatStep
        /\ last'.context # None
        /\ StoredStep(chat_sessions, last'.session_id) = "bank_selection"
        /\ ~AnyIn(TriggerPhrases, Normalise(last'.message)))
       => \A i \in 1..Len(BANKS) :
             (/\ Contains(BanksLower[i], Normalise(last'.message))
              /\ \A j \in 1..(i - 1) : ~Contains(BanksLower[j], Normalise(last'.message)))
                 => /\ StoredStep(chat_sessions', last'.session_id) = "amount_input"
                    /\ chat_sessions'[last'.session_id].dispute_form.bank
                           = Some(BANKS[i])]_vars

C10_Witness_TwoBanksNamed ==
    /\ last.op = "process_message"
    /\ Normalise(last.message) = "icici bank or hdfc bank"
    /\ StoredStep(chat_sessions, last.session_id) = "amount_input"
    /\ chat_sessions[last.session_id].dispute_form.bank = Some("HDFC Bank")

(***************************************************************************)
(* Single messages against every kind of stored session: the store is      *)
(* written by Database.update_session and then receives chat messages      *)
(* drawn from a wider set of texts.                                        *)
(***************************************************************************)
StepMessages == Messages \cup {"0", "1,500.50", "12"}

\* bound on the number of process_message calls of such a run
MaxStepMessages == 1

StepChat ==
    \E session_id \in SessionIds, raw \in StepMessages, context \in RequestContexts :
        /\ nmsg < MaxStepMessages
        /\ ProcessMessage(session_id, raw, context)
        /\ nmsg' = nmsg + 1
        /\ UNCHANGED <<nstore, pc, auth_vars>>

StepNext == UpdateSession \/ StepChat

SpecStep == Init /\ [][StepNext]_vars

\* the message is handled by the handler of the stored step: the request
\* carries a context dict and the message holds no branch trigger phrase
HandledAtStep(step) ==
    /\ ChatStep
    /\ last'.context # None
    /\ StoredStep(chat_sessions, last'.session_id) = step
    /\ ~AnyIn(TriggerPhrases, Normalise(last'.message))

\* C11: every amount the amount_input step stores, and the amount of every
\* dispute record, is strictly positive; a message whose first numeric
\* token is zero gets the re-prompt and leaves the step at amount_input.
C11_AcceptedAmountIsPositive ==
    [][HandledAtStep("amount_input") =>
        LET sid == last'.session_id
            amount == chat_sessions'[sid].dispute_form.amount
        IN /\ StoredStep(chat_sessions', sid) \in {"amount_input", "date_input"}
           /\ StoredStep(chat_sessions', sid) = "date_input"
                 => amount # None /\ TheValue(amount) > 0
           /\ AmountMatch(Normalise(last'.message)) = Some(0)
                 => /\ StoredStep(chat_sessions', sid) = "amount_input"
                    /\ \A r \in response' : r.response =
                          "Please enter a valid amount in numbers (e.g., 5000 or 1500.50)"]_vars

\* C12: the cardlastfour of every dispute record is a string of exactly 4
\* characters or the sentinel 'N/A', whatever was sent at step card_info.
C12_CardLastFourShape ==
    \A id \in DOMAIN disputes :
        \/ disputes[id].cardlastfour = "N/A"
        \/ Len(disputes[id].cardlastfour) = 4

\* the reply of the step reports action dispute_created
ReportsCreated == \E r \in response' : r.action = Some("dispute_created")

\* C13: a reply has action dispute_created exactly when the step stored a
\* dispute record made of the data of the session's form; its dispute_id is
\* then the key (and the id field) of that record; every other reply has
\* neither action nor dispute_id and its step leaves the dispute store as
\* it was.
C13_ActionIffCreated ==
    [][ChatStep =>
        LET sid == last'.session_id IN
        /\ ReportsCreated =>
              \A r \in response' :
                 /\ r.action = Some("dispute_created")
                 /\ r.dispute_id # None
                 /\ TheValue(r.dispute_id) \in DOMAIN disputes'
                 /\ LET rec == disputes'[TheValue(r.dispute_id)]
                        form == chat_sessions[sid].dispute_form
                    IN /\ rec.id = TheValue(r.dispute_id)
                       /\ Some(rec.type) = form.type
                       /\ Some(rec.bank) = form.bank
                       /\ Some(rec.amount) = form.amount
                       /\ Some(rec.date) = form.date
                       /\ Some(rec.description) = form.description
                       /\ \A id \in DOMAIN disputes' \ {rec.id} :
                             id \in DOMAIN disputes /\ disputes'[id] = disputes[id]
        /\ ~ReportsCreated =>
              /\ disputes' = disputes
              /\ \A r \in response' : r.action = None /\ r.dispute_id = None]_vars

C13_Witness_CreatedWithSentinel ==
    /\ last.op = "process_message"
    /\ last.message = "N/A"
    /\ \E r \in response :
          /\ r.action = Some("dispute_created")
          /\ \E id \in r.dispute_id :
                id \in DOMAIN disputes /\ disputes[id].cardlastfour = "N/A"

\* C14: right after a step created a dispute record, get_dispute of the
\* returned id finds a record with status submitted, the first entry of its
\* timeline has status 'Submitted', and a session at step track_dispute
\* that sends the returned id gets the reply showing status Submitted.
C14_RoundTripAfterCreation ==
    [][(ChatStep /\ ReportsCreated) =>
        \A r \in response' : \A id \in r.dispute_id :
            /\ get_dispute(disputes', id) # None
            /\ TheValue(get_dispute(disputes', id)).status = "submitted"
            /\ Len(get_dispute_timeline(disputes', id)) >= 1
            /\ get_dispute_timeline(disputes', id)[1].status = "Submitted"
            /\ LET tracking == update_session(chat_sessions', last'.session_id,
                                              Session("track_dispute", EmptyForm))
               IN \A t \in process_message(last'.session_id, id, Some(EmptyDict),
                                           tracking, disputes') :
                     t.response = Some(ChatResponse(
                         "Dispute Status: Submitted ... Your dispute is being processed.",
                         None, None, None, NoCtx))]_vars

C14_Witness_CreatedAndFound ==
    /\ last.op = "process_message"
    /\ last.message = "1234"
    /\ \E r \in response : \E id \in r.dispute_id :
          /\ r.action = Some("dispute_created")
          /\ get_dispute(disputes, id) # None
          /\ get_dispute_timeline(disputes, id)[1].status = "Submitted"

(***************************************************************************)
(* The dispute store on its own: records are created by POST /api/dispute  *)
(* (routers/disputes.py, DisputeService.create_dispute), their status is   *)
(* set by Database.update_dispute_status and they are read by get_dispute. *)
(* A call is recorded in last: op is the method and message the dispute id *)
(* it concerned ("" when create_dispute raised).                           *)
(***************************************************************************)
\* the DisputeForm bodies a client posts: two complete forms and one
\* without cardlastfour
ApiForms ==
    {[FormAfter(5) EXCEPT !.cardlastfour = Some("1234")],
     [FormAfter(5) EXCEPT !.type = Some("Other"), !.amount = Some(6000000),
                          !.cardlastfour = Some("N/A")],
     FormAfter(5)}

\* the ids a client asks about: those a record can get and one that none has
KnownIds == {NewDisputeId(uuid_hex) : uuid_hex \in UuidHexPool} \cup {"DSP00000000"}

\* bound on the number of dispute-store calls of a run
MaxDisputeCalls == 3

\* POST /api/dispute
ApiCreateDispute ==
    \E form \in ApiForms, uuid_hex \in UuidHexPool :
        LET created == create_dispute(form, uuid_hex, disputes) IN
        /\ nstore < MaxDisputeCalls
        /\ nstore' = nstore + 1
        /\ disputes' = created.disputes
        /\ last' = [NoCall EXCEPT !.op = "create_dispute",
                                  !.message = IF created.ok
                                              THEN TheValue(created.result).dispute_id
                                              ELSE ""]
        /\ response' = None
        /\ UNCHANGED <<chat_sessions, session_keys, nmsg, pc, auth_vars>>

\* Database.update_dispute_status called directly on the store
UpdateDisputeStatus ==
    \E dispute_id \in KnownIds, status \in DisputeStatus :
        /\ nstore < MaxDisputeCalls
        /\ nstore' = nstore + 1
        /\ disputes' = update_dispute_status(disputes, dispute_id, status)
        /\ last' = [NoCall EXCEPT !.op = "update_dispute_status", !.message = dispute_id]
        /\ response' = None
        /\ UNCHANGED <<chat_sessions, session_keys, nmsg, pc, auth_vars>>

\* Database.get_dispute and get_dispute_timeline: reads
ReadDispute ==
    \E dispute_id \in KnownIds :
        /\ nstore < MaxDisputeCalls
        /\ nstore' = nstore + 1
        /\ last' = [NoCall EXCEPT !.op = "get_dispute", !.message = dispute_id]
        /\ response' = None
        /\ UNCHANGED <<disputes, chat_sessions, session_keys, nmsg, pc, auth_vars>>

StoreNext == ApiCreateDispute \/ UpdateDisputeStatus \/ ReadDispute

SpecStore == Init /\ [][StoreNext]_vars

\* the order of the statuses: submitted, under_review, resolved
StatusRank(status) ==
    CASE status = "submitted" -> 0
      [] status = "under_review" -> 1
      [] status = "resolved" -> 2
      [] status = "escalated" -> 3

\* a status stays, moves on along submitted, under_review, resolved, or
\* goes to escalated
StatusForward(old, new) ==
    old = new \/ new = "escalated" \/ (old # "escalated" /\ StatusRank(old) < StatusRank(new))

\* C15: over every dispute-store operation a stored record stays stored
\* under its id, keeps its id field, and its status stays or moves forward
\* (submitted, under_review, resolved, or to escalated), never backward.
C15_StatusOnlyForward ==
    [][\A id \in DOMAIN disputes :
          /\ id \in DOMAIN disputes'
          /\ disputes'[id].id = disputes[id].id
          /\ StatusForward(disputes[id].status, disputes'[id].status)]_vars

\* C16: every successful creation stores its record under an id that was
\* not in the dispute store before, so the store grows by one record and
\* no stored record is replaced.
C16_CreationNeverOverwrites ==
    [][(last'.op = "create_dispute" /\ nstore' = nstore + 1 /\ last'.message # "") =>
          /\ last'.message \notin DOMAIN disputes
          /\ Cardinality(DOMAIN disputes') = Cardinality(DOMAIN disputes) + 1
          /\ \A id \in DOMAIN disputes : disputes'[id] = disputes[id]]_vars

(***************************************************************************)
(* The session store on its own: create_session, get_session,              *)
(* update_session and delete_session called on two session ids.  Here      *)
(* response holds what the call returned: the session dict (None for an    *)
(* absent session) or the bool of delete_session.                          *)
(***************************************************************************)
\* bound on the number of session-store calls of a run
MaxSessionCalls == 3

SessionCall(op, session_id) == [NoCall EXCEPT !.op = op, !.session_id = session_id]

StoreCreateSession ==
    \E session_id \in FlowSessionIds :
        /\ nstore < MaxSessionCalls
        /\ nstore' = nstore + 1
        /\ chat_sessions' = create_session(chat_sessions, session_id)
        /\ response' = Some(chat_sessions'[session_id])
        /\ last' = SessionCall("create_session", session_id)
        /\ session_keys' = KeysAfter(session_keys, chat_sessions')
        /\ UNCHANGED <<disputes, nmsg, pc, auth_vars>>

StoreGetSession ==
    \E session_id \in FlowSessionIds :
        /\ nstore < MaxSessionCalls
        /\ nstore' = nstore + 1
        /\ response' = get_session(chat_sessions, session_id)
        /\ last' = SessionCall("get_session", session_id)
        /\ UNCHANGED <<chat_sessions, session_keys, disputes, nmsg, pc, auth_vars>>

StoreUpdateSession ==
    \E session_id \in FlowSessionIds, session_data \in SeedSessions :
        /\ nstore < MaxSessionCalls
        /\ nstore' = nstore + 1
        /\ chat_sessions' = update_session(chat_sessions, session_id, session_data)
        /\ response' = Some(session_data)
        /\ last' = SessionCall("update_session", session_id)
        /\ session_keys' = KeysAfter(session_keys, chat_sessions')
        /\ UNCHANGED <<disputes, nmsg, pc, auth_vars>>

StoreDeleteSession ==
    \E session_id \in FlowSessionIds :
        /\ nstore < MaxSessionCalls
        /\ nstore' = nstore + 1
        /\ chat_sessions' = delete_session(chat_sessions, session_id)
        /\ response' = Some(delete_session_result(chat_sessions, session_id))
        /\ last' = SessionCall("delete_session", session_id)
        /\ session_keys' = KeysAfter(session_keys, chat_sessions')
        /\ UNCHANGED <<disputes, nmsg, pc, auth_vars>>

SessionsNext ==
    StoreCreateSession \/ StoreGetSession \/ StoreUpdateSession \/ StoreDeleteSession

SpecSessions == Init /\ [][SessionsNext]_vars

\* C17: create_session leaves and returns a session with step greeting and
\* empty dispute_form and context, whether or not the id had a session;
\* get_session returns the stored session, or absent, and changes nothing;
\* delete_session returns true exactly when the id had a session, leaves
\* the id absent, and returns false when it directly follows a
\* delete_session of the same id; no call changes the session of the other
\* id.
C17_SessionStoreContract ==
    [][nstore' = nstore + 1 =>
        LET sid == last'.session_id
            op == last'.op
        IN /\ \A other \in FlowSessionIds \ {sid} :
                 get_session(chat_sessions', other) = get_session(chat_sessions, other)
           /\ op = "create_session" =>
                 /\ sid \in DOMAIN chat_sessions'
                 /\ chat_sessions'[sid] =
                        [step |-> "greeting",
                         dispute_form |-> [type |-> {}, bank |-> {}, amount |-> {},
                                           date |-> {}, description |-> {},
                                           cardlastfour |-> {}],
                         context |-> << >>]
                 /\ response' = {chat_sessions'[sid]}
           /\ op = "get_session" =>
                 /\ chat_sessions' = chat_sessions
                 /\ response' = IF sid \in DOMAIN chat_sessions
                                THEN {chat_sessions[sid]} ELSE {}
           /\ op = "delete_session" =>
                 /\ response' = {sid \in DOMAIN chat_sessions}
                 /\ sid \notin DOMAIN chat_sessions'
                 /\ (last.op = "delete_session" /\ last.session_id = sid)
                       => response' = {FALSE}]_vars

C17_Witness_DeleteKeepsOther ==
    /\ last.op = "delete_session"
    /\ response = {TRUE}
    /\ nstore = 3
    /\ \E other \in FlowSessionIds \ {last.session_id} : DOMAIN chat_sessions = {other}

(***************************************************************************)
(* A store that holds the fresh sessions of NumClients clients (each sent  *)
(* one message), on which sessions are removed - by the terminal step, by  *)
(* delete_session, by cleanup_old_sessions - and messaged again.           *)
(***************************************************************************)
\* number of sessions in the store at the start: one over the threshold of
\* cleanup_old_sessions
NumClients == 101

DigitChars == <<"0", "1", "2", "3", "4", "5", "6", "7", "8", "9">>

\* the session id of the i-th client
ClientId(i) ==
    "u" \o DigitChars[((i \div 100) % 10) + 1] \o DigitChars[((i \div 10) % 10) + 1]
        \o DigitChars[(i % 10) + 1]

\* the session ids in the order their sessions were created
ClientIds == [i \in 1..NumClients |-> ClientId(i)]

\* the clients that act: the one created first and the one created last
ActiveIds == {ClientId(1), ClientId(NumClients)}

EvictMessages == {"Hello", "1234"}

\* bounds on the process_message calls and on the store calls of such a run
MaxEvictMessages == 2

MaxEvictCalls == 1

EvictChat ==
    \E session_id \in ActiveIds, raw \in EvictMessages, context \in RequestContexts :
        /\ nmsg < MaxEvictMessages
        /\ ProcessMessage(session_id, raw, context)
        /\ nmsg' = nmsg + 1
        /\ UNCHANGED <<nstore, pc, auth_vars>>

\* Database.update_session puts a session at step card_info with a complete form
EvictSeed ==
    \E session_id \in ActiveIds :
        /\ nstore < MaxEvictCalls
        /\ nstore' = nstore + 1
        /\ chat_sessions' = update_session(chat_sessions, session_id,
                                           Session("card_info", FormAfter(5)))
        /\ last' = SessionCall("update_session", session_id)
        /\ response' = None
        /\ session_keys' = KeysAfter(session_keys, chat_sessions')
        /\ UNCHANGED <<disputes, nmsg, pc, auth_vars>>

EvictDelete ==
    \E session_id \in ActiveIds :
        /\ nstore < MaxEvictCalls
        /\ nstore' = nstore + 1
        /\ chat_sessions' = delete_session(chat_sessions, session_id)
        /\ last' = SessionCall("delete_session", session_id)
        /\ response' = None
        /\ session_keys' = KeysAfter(session_keys, chat_sessions')
        /\ UNCHANGED <<disputes, nmsg, pc, auth_vars>>

\* Database.cleanup_old_sessions called on the store
Cleanup ==
    /\ nstore < MaxEvictCalls
    /\ nstore' = nstore + 1
    /\ chat_sessions' = cleanup_old_sessions(chat_sessions, session_keys)
    /\ last' = [NoCall EXCEPT !.op = "cleanup_old_sessions"]
    /\ response' = None
    /\ session_keys' = KeysAfter(session_keys, chat_sessions')
    /\ UNCHANGED <<disputes, nmsg, pc, auth_vars>>

InitEvict ==
    /\ AuthIdle
    /\ chat_sessions = [k \in {ClientIds[i] : i \in 1..NumClients} |-> NewSession]
    /\ session_keys = ClientIds
    /\ disputes = EmptyDict
    /\ last = NoCall
    /\ response = None
    /\ nmsg = 0
    /\ nstore = 0
    /\ pc = -1

EvictNext == EvictChat \/ EvictSeed \/ EvictDelete \/ Cleanup

SpecEvict == InitEvict /\ [][EvictNext]_vars

\* the call before the step removed the session of session_id: the terminal
\* step of its flow, delete_session, or an eviction by cleanup_old_sessions
JustRemoved(session_id) ==
    \/ last.op = "delete_session" /\ last.session_id = session_id
    \/ last.op = "cleanup_old_sessions" /\ session_id \notin DOMAIN chat_sessions
    \/ /\ last.op = "process_message"
       /\ last.session_id = session_id
       /\ \E r \in response : r.action = Some("dispute_created")

\* a session id no client has used
UnseenId == "never-seen"

\* a reply with the session id in its context replaced
WithSessionId(resp, session_id) ==
    {[r EXCEPT !.context.session_id =
          IF r.context.session_id = None THEN None ELSE Some(session_id)] : r \in resp}

\* C18: when the call before removed the session of an id (terminal
\* deletion, delete_session, eviction), the next message with that id gets
\* a reply and leaves a stored session that processing the same message
\* from a never-seen id would produce (the fresh greeting session, the
\* id being the last key of the store): nothing of the removed session is
\* left.
C18_RemovedSessionIsUnseen ==
    [][(ChatStep /\ JustRemoved(last'.session_id)) =>
        LET sid == last'.session_id IN
        /\ sid \in DOMAIN chat_sessions'
        /\ session_keys'[Len(session_keys')] = sid
        /\ \E u \in process_message(UnseenId, last'.message, last'.context,
                                    chat_sessions, disputes) :
              /\ response' = WithSessionId(u.response, sid)
              /\ chat_sessions'[sid] = u.chat_sessions[UnseenId]
              /\ disputes' = u.disputes
        /\ chat_sessions'[sid].step = "greeting"
        /\ chat_sessions'[sid].dispute_form = EmptyForm]_vars

C18_Witness_MessageAfterEviction ==
    /\ last.op = "process_message"
    /\ last.session_id = ClientId(1)
    /\ Len(session_keys) = NumClients - (NumClients \div 2) + 1
    /\ session_keys[Len(session_keys)] = ClientId(1)
    /\ chat_sessions[ClientId(1)] = NewSession

\* the message of a request with a context dict goes to the AI responder:
\* at step greeting (also the greeting of a session just created) without
\* a greeting keyword, at step main_menu without 'report a dispute' and
\* without a greeting keyword, at an unknown step without a trigger phrase
ReachesAi(step, message) ==
    \/ step \in {"absent", "greeting"} /\ ~AnyIn(GreetingWords, message)
    \/ /\ step = "main_menu"
       /\ ~Contains("report a dispute", message)
       /\ ~AnyIn(GreetingWords, message)
    \/ step \notin (Steps \cup {"absent"}) /\ ~AnyIn(TriggerPhrases, message)

\* C19: whenever the backend call returns a non-200 status, times out or
\* raises, get_ai_response returns the static fallback text of the message;
\* a message that reaches the AI responder gets a ChatResponse whose text
\* is the backend's reply or that fallback text, without action, and the
\* step of its session (greeting for a session just created) and the
\* dispute store are unchanged.
C19_AiFailureFallsBack ==
    [][(/\ ChatStep
        /\ last'.context # None
        /\ ReachesAi(StoredStep(chat_sessions, last'.session_id),
                     Normalise(last'.message)))
       => LET sid == last'.session_id
              before == StoredStep(chat_sessions, sid)
          IN /\ \A ai \in {"non-200", "timeout", "exception"} :
                    get_ai_response(last'.message, ai)
                        = FallbackService_get_response(last'.message)
             /\ response' # None
             /\ \A r \in response' :
                   /\ r.response \in {AiText, FallbackService_get_response(last'.message)}
                   /\ r.action = None
             /\ StoredStep(chat_sessions', sid)
                    = IF before = "absent" THEN "greeting" ELSE before
             /\ disputes' = disputes]_vars

C19_Witness_FallbackReply ==
    /\ last.op = "process_message"
    /\ last.context # None
    /\ last.message = "5000"
    /\ StoredStep(chat_sessions, last.session_id) = "main_menu"
    /\ \E r \in response : r.response = FallbackService_get_response("5000")

\* every way of processing the message of the step once more, against the
\* stores as the step left them, returns the reply the step returned and
\* leaves the stores unchanged
ResendRepeats ==
    \A t \in process_message(last'.session_id, last'.message, last'.context,
                             chat_sessions', disputes') :
        /\ t.response = response'
        /\ t.chat_sessions = chat_sessions'
        /\ t.disputes = disputes'

\* C20 as stated: whenever processing a message leaves the session store
\* and the dispute store unchanged, processing the same message again
\* returns the same reply and again leaves them unchanged.
C20_ResendSameResponse ==
    [][(ChatStep /\ chat_sessions' = chat_sessions /\ disputes' = disputes)
       => ResendRepeats]_vars

\* C20 amended: the same, for the messages that are not answered by the AI
\* responder (rejected input, the informational branches, the prompts and
\* error replies of the handlers).
C20_ResendSameScriptedResponse ==
    [][(/\ ChatStep
        /\ chat_sessions' = chat_sessions
        /\ disputes' = disputes
        /\ ~(/\ last'.context # None
             /\ ReachesAi(StoredStep(chat_sessions, last'.session_id),
                          Normalise(last'.message))))
       => ResendRepeats]_vars

C20_Witness_GuidanceLeavesSession ==
    /\ last.op = "process_message"
    /\ last.context # None
    /\ last.message = "Get Guidance"
    /\ \E r \in response : r.response = GuidanceText
    /\ chat_sessions = [s \in {last.session_id} |-> Session("amount_input", FormAfter(2))]

(***************************************************************************)
(* One session that stands at step dispute_type with an empty form and     *)
(* then only receives chat messages.                                       *)
(***************************************************************************)
FormMessages ==
    {"ATM Dispute", "HDFC Bank", "5000", "2024-01-15", "Test Issue", "1234",
     "Report a Dispute", "Track Existing Dispute", "abc"}

\* bound on the number of process_message calls of such a run
MaxFormMessages == 3

FormChat ==
    \E session_id \in SessionIds, raw \in FormMessages, context \in RequestContexts :
        /\ nmsg < MaxFormMessages
        /\ ProcessMessage(session_id, raw, context)
        /\ nmsg' = nmsg + 1
        /\ UNCHANGED <<nstore, pc, auth_vars>>

InitForm ==
    /\ AuthIdle
    /\ chat_sessions = update_session(EmptyDict, "s1", Session("dispute_type", EmptyForm))
    /\ disputes = EmptyDict
    /\ last = NoCall
    /\ response = None
    /\ nmsg = 0
    /\ nstore = 0
    /\ pc = -1
    /\ session_keys = KeysAfter(<< >>, chat_sessions)

SpecForm == InitForm /\ [][FormChat]_vars

\* the fields of dispute_form in the order their steps collect them, and
\* the number of fields collected before each of these steps
FormFields == <<"type", "bank", "amount", "date", "description", "cardlastfour">>

FieldsBefore(step) ==
    CASE step = "dispute_type" -> 0
      [] step = "bank_selection" -> 1
      [] step = "amount_input" -> 2
      [] step = "date_input" -> 3
      [] step = "description_input" -> 4
      [] step = "card_info" -> 5

CollectingSteps ==
    {"dispute_type", "bank_selection", "amount_input", "date_input",
     "description_input", "card_info"}

\* C21: in a session that entered step dispute_type with an empty form, the
\* populated fields of dispute_form are exactly the fields of the steps
\* before the current step (type, bank, amount, date, description,
\* cardlastfour): no field of the current or a later step is populated.
C21_FormFollowsStepOrder ==
    \A sid \in DOMAIN chat_sessions :
        LET session == chat_sessions[sid] IN
        session.step \in CollectingSteps =>
            \A k \in 1..Len(FormFields) :
                (session.dispute_form[FormFields[k]] # None)
                    <=> (k <= FieldsBefore(session.step))

(***************************************************************************)
(* DisputeService._get_estimated_resolution on its own: it is called with  *)
(* every priority and dispute type; response holds the arguments of the    *)
(* call and the string it returned.                                        *)
(***************************************************************************)
\* bound on the number of calls of a run
MaxEstimateCalls == 4

EstimateResolution ==
    \E priority \in Priority, dispute_type \in DisputeTypeValues :
        /\ nstore < MaxEstimateCalls
        /\ nstore' = nstore + 1
        /\ last' = [NoCall EXCEPT !.op = "_get_estimated_resolution"]
        /\ response' = Some([priority |-> priority,
                             dispute_type |-> dispute_type,
                             estimated_resolution |->
                                 _get_estimated_resolution(priority, dispute_type)])
        /\ UNCHANGED <<chat_sessions, disputes, session_keys, nmsg, pc, auth_vars>>

SpecEstimate == Init /\ [][EstimateResolution]_vars

\* C22: the estimated-resolution string is '2-3 business days' for type
\* ATM Dispute whatever the priority, and otherwise '3-5 business days' for
\* high, '5-7 business days' for medium and '7-10 business days' for low.
C22_EstimatedResolution ==
    last.op = "_get_estimated_resolution" =>
        \A r \in response :
            /\ r.dispute_type = "ATM Dispute"
                  => r.estimated_resolution = "2-3 business days"
            /\ (r.dispute_type # "ATM Dispute" /\ r.priority = "high")
                  => r.estimated_resolution = "3-5 business days"
            /\ (r.dispute_type # "ATM Dispute" /\ r.priority = "medium")
                  => r.estimated_resolution = "5-7 business days"
            /\ (r.dispute_type # "ATM Dispute" /\ r.priority = "low")
                  => r.estimated_resolution = "7-10 business days"

C22_Witness_AtmWithHighPriority ==
    /\ last.op = "_get_estimated_resolution"
    /\ \E r \in response :
          /\ r.dispute_type = "ATM Dispute"
          /\ r.priority = "high"
          /\ r.estimated_resolution = "2-3 business days"

(***************************************************************************)
(* Single messages against every kind of stored session, drawn from the    *)
(* texts that exercise the extractors and matchers of the step handlers    *)
(* and the routing of process_message.                                     *)
(***************************************************************************)
InputMessages ==
    {"5,000", "5000", "1500.50", "abc", "5000 or 200",
     "ATM Dispute", "transaction", "atm dispute after a failed transaction", "",
     "hdfc", "HDFC Bank", "Report a Dispute",
     "2024-01-15", "15 Jan 2024", "1234567", "yesterday",
     "Report a dispute, track existing dispute, get guidance, emergency help"}

\* bound on the number of process_message calls of such a run
MaxInputMessages == 1

InputChat ==
    \E session_id \in SessionIds, raw \in InputMessages, context \in RequestContexts :
        /\ nmsg < MaxInputMessages
        /\ ProcessMessage(session_id, raw, context)
        /\ nmsg' = nmsg + 1
        /\ UNCHANGED <<nstore, pc, auth_vars>>

InputNext == UpdateSession \/ InputChat

SpecInput == Init /\ [][InputNext]_vars

\* C23: the amount extractor strips commas and takes the first run of
\* digits with an optional decimal part: '5,000' and '5000' give 5000.0,
\* '1500.50' gives 1500.50, a message with several numbers gives the first
\* one; a message without a digit is rejected with the re-prompt and leaves
\* the step at amount_input and the form unchanged.  (Amounts are
\* hundredths.)
C23_AmountExtractor ==
    [][HandledAtStep("amount_input") =>
        LET sid == last'.session_id
            message == Normalise(last'.message)
            before == chat_sessions[sid]
            after == chat_sessions'[sid]
        IN /\ message \in {"5,000", "5000", "5000 or 200"}
                 => after.dispute_form.amount = Some(500000)
           /\ message = "1500.50" => after.dispute_form.amount = Some(150050)
           /\ HasDigit(message)
                 => /\ after.step = "date_input"
                    /\ after.dispute_form.amount # None
                    /\ after.dispute_form
                          = [before.dispute_form EXCEPT
                                !.amount = after.dispute_form.amount]
           /\ ~HasDigit(message)
                 => /\ chat_sessions' = chat_sessions
                    /\ after.step = "amount_input"
                    /\ \A r \in response' : r.response =
                          "Please enter a valid amount in numbers (e.g., 5000 or 1500.50)"
           /\ disputes' = disputes]_vars

C23_Witness_CommaAmountStored ==
    /\ last.op = "process_message"
    /\ last.context # None
    /\ last.message = "5,000"
    /\ StoredStep(chat_sessions, last.session_id) = "date_input"
    /\ chat_sessions[last.session_id].dispute_form
          = [FormAfter(2) EXCEPT !.amount = Some(500000)]

\* the extractor of the step rejects the message: no type matches it, no
\* bank name is in it, it holds no digit, it is no date
Rejected(step, message) ==
    CASE step = "dispute_type" ->
            \A i \in 1..Len(DisputeType) :
                /\ ~Contains(DisputeTypeLower[i], message)
                /\ ~Contains(message, DisputeTypeLower[i])
      [] step = "bank_selection" ->
            \A i \in 1..Len(BANKS) : ~Contains(BanksLower[i], message)
      [] step = "amount_input" -> ~HasDigit(message)
      [] step = "date_input" -> ~(HasDigit(message) /\ Len(message) >= 8)

ValidatingSteps == {"dispute_type", "bank_selection", "amount_input", "date_input"}

\* C24: when the input at step dispute_type, bank_selection, amount_input
\* or date_input is rejected by the extractor of the step, the stored
\* session keeps its step and every dispute_form field, no dispute record
\* is created and the session is not deleted.
C24_RejectedInputKeepsSession ==
    [][\A step \in ValidatingSteps :
          (HandledAtStep(step) /\ Rejected(step, Normalise(last'.message))) =>
              LET sid == last'.session_id IN
              /\ sid \in DOMAIN chat_sessions'
              /\ chat_sessions'[sid].step = step
              /\ chat_sessions'[sid].dispute_form = chat_sessions[sid].dispute_form
              /\ disputes' = disputes
              /\ \A r \in response' : r.action = None /\ r.dispute_id = None]_vars

C24_Witness_RejectedType ==
    /\ last.op = "process_message"
    /\ last.context # None
    /\ last.message = "abc"
    /\ chat_sessions = [s \in {last.session_id} |-> Session("dispute_type", FormAfter(0))]
    /\ \E r \in response :
          r.response = "Please select one of the dispute types from the options below:"

\* C25: starting from the empty session store, after any sequence of
\* process_message calls every stored session has step greeting and an
\* empty dispute_form, and the dispute store holds no record.
C25_ChatNeverLeavesGreeting ==
    /\ \A sid \in DOMAIN chat_sessions :
          /\ chat_sessions[sid].step = "greeting"
          /\ chat_sessions[sid].dispute_form = EmptyForm
    /\ disputes = EmptyDict

C25_Witness_ScriptSentStillGreeting ==
    /\ pc = Len(Script)
    /\ last.op = "process_message"
    /\ last.message = "1234"
    /\ ScriptSid \in DOMAIN chat_sessions
    /\ chat_sessions[ScriptSid].step = "greeting"
    /\ disputes = EmptyDict

\* C26: when dispute creation fails at step card_info, the stored session
\* is identical to what it was before the message was processed: its step
\* and every dispute_form field, cardlastfour included, keep their values.
C26_FailedCreationLeavesSessionIdentical ==
    [][(HandledAtStep("card_info") /\ ~ReportsCreated) =>
          LET sid == last'.session_id IN
          /\ sid \in DOMAIN chat_sessions'
          /\ chat_sessions'[sid] = chat_sessions[sid]]_vars

\* the display string of the i-th dispute type, in lower case, is a
\* substring of the message or contains the message as a substring
TypeMatches(i, message) ==
    \/ Contains(Lower(DisputeType[i]), message)
    \/ Contains(message, Lower(DisputeType[i]))

\* C27: at step dispute_type the selected type is the first type in
\* enumeration order whose lower-case display string is a substring of the
\* message or contains the message; on a match the type is stored and the
\* step becomes bank_selection, otherwise the step and the form are
\* unchanged and the reply lists all types.
C27_FirstMatchingTypeSelected ==
    [][HandledAtStep("dispute_type") =>
        LET sid == last'.session_id
            message == Normalise(last'.message)
        IN /\ \A i \in 1..Len(DisputeType) :
                 (TypeMatches(i, message) /\ \A j \in 1..(i - 1) : ~TypeMatches(j, message))
                    => chat_sessions'[sid]
                          = [chat_sessions[sid] EXCEPT
                                !.dispute_form.type = Some(DisputeType[i]),
                                !.step = "bank_selection"]
           /\ (\A i \in 1..Len(DisputeType) : ~TypeMatches(i, message))
                 => /\ chat_sessions' = chat_sessions
                    /\ response' # None
                    /\ \A r \in response' : r.options = Some(DisputeType)
           /\ disputes' = disputes]_vars

C27_Witness_PartialNameSelectsFirst ==
    /\ last.op = "process_message"
    /\ last.context # None
    /\ last.message = "transaction"
    /\ chat_sessions = [s \in {last.session_id} |->
                           Session("bank_selection",
                                   [EmptyForm EXCEPT !.type = Some("Unauthorized Transaction")])]

\* the name of the i-th bank, in lower case, is a substring of the message
\* or contains the message as a substring
BankMatches(i, message) ==
    \/ Contains(Lower(BANKS[i]), message)
    \/ Contains(message, Lower(BANKS[i]))

\* C28: at step bank_selection a bank is selected when its lower-case name
\* is a substring of the message or the message is a substring of its name
\* (so 'hdfc' selects HDFC Bank); of several matching banks the first of
\* the bank list is stored, and the step becomes amount_input.  (Stated for
\* the messages that are not empty.)
C28_BankMatcherBidirectional ==
    [][(HandledAtStep("bank_selection") /\ Normalise(last'.message) # "") =>
        LET sid == last'.session_id
            message == Normalise(last'.message)
        IN \A i \in 1..Len(BANKS) :
              (BankMatches(i, message) /\ \A j \in 1..(i - 1) : ~BankMatches(j, message))
                 => chat_sessions'[sid]
                       = [chat_sessions[sid] EXCEPT
                             !.dispute_form.bank = Some(BANKS[i]),
                             !.step = "amount_input"]]_vars

\* C29: for a stored session at any step other than greeting, a message
\* containing 'report a dispute' sets the step to dispute_type whatever
\* the step was and whatever other trigger phrases the message holds; the
\* reply is the prompt listing the dispute types, every dispute_form field
\* keeps its value and the dispute store is unchanged.
C29_ReportRestartsAndKeepsForm ==
    [][(/\ ChatStep
        /\ last'.context # None
        /\ StoredStep(chat_sessions, last'.session_id) \notin {"absent", "greeting"}
        /\ Contains("report a dispute", Normalise(last'.message)))
       => LET sid == last'.session_id IN
          /\ chat_sessions' = [chat_sessions EXCEPT ![sid].step = "dispute_type"]
          /\ chat_sessions'[sid].dispute_form = chat_sessions[sid].dispute_form
          /\ disputes' = disputes
          /\ response' = Some(ChatResponse(
                 "I'll help you report a dispute. What type of issue are you experiencing?",
                 Some(DisputeType), None, None, Ctx(sid)))]_vars

C29_Witness_RestartAtCardInfo ==
    /\ last.op = "process_message"
    /\ last.context # None
    /\ last.message = "Report a dispute, track existing dispute, get guidance, emergency help"
    /\ chat_sessions = [s \in {last.session_id} |-> Session("dispute_type", FormAfter(5))]
    /\ disputes = EmptyDict

(***************************************************************************)
(* Tracking: sessions are written by Database.update_session, dispute      *)
(* records are created by POST /api/dispute and their status is set by     *)
(* Database.update_dispute_status; then a chat message arrives that is an  *)
(* id, nearly an id or no id at all.                                       *)
(***************************************************************************)
TrackMessages ==
    {" DSP4F2A9C31 ", "dsp0b7e55aa", "DSP00000000", "dsp123", "DSP4F2A9C31X", "4F2A9C31DSP"}

\* bound on the number of process_message calls of such a run
MaxTrackMessages == 1

TrackChat ==
    \E session_id \in SessionIds, raw \in TrackMessages, context \in RequestContexts :
        /\ nmsg < MaxTrackMessages
        /\ ProcessMessage(session_id, raw, context)
        /\ nmsg' = nmsg + 1
        /\ UNCHANGED <<nstore, pc, auth_vars>>

TrackNext == UpdateSession \/ ApiCreateDispute \/ UpdateDisputeStatus \/ TrackChat

SpecTrack == Init /\ [][TrackNext]_vars

\* C30: at step track_dispute, an input that, upper-cased and trimmed,
\* starts with DSP and has length 11 is looked up: the reply renders the
\* status of the record when it exists and is the 'not found' text
\* otherwise; any other input gets the prompt for a valid-format id.  In
\* every case the session store (step, form, presence of the session) and
\* the dispute store are unchanged.  Every id of the dispute store passes
\* the format check.
C30_TrackingLooksUpWellFormedIds ==
    [][/\ \A id \in DOMAIN disputes' : StartsWith(id, "DSP") /\ Len(id) = 11
       /\ HandledAtStep("track_dispute") =>
             LET dispute_id == Strip(Upper(last'.message))
                 wellformed == StartsWith(dispute_id, "DSP") /\ Len(dispute_id) = 11
             IN /\ (wellformed /\ dispute_id \in DOMAIN disputes)
                      => response' = Some(ChatResponse(
                             "Dispute Status: " \o StatusTitle(disputes[dispute_id].status)
                                 \o " ... Your dispute is being processed.",
                             None, None, None, NoCtx))
                /\ (wellformed /\ dispute_id \notin DOMAIN disputes)
                      => response' = Some(ChatResponse(
                             "Dispute ID not found. Please check the ID and try again, or contact your bank directly.",
                             None, None, None, NoCtx))
                /\ ~wellformed
                      => response' = Some(ChatResponse(
                             "Please provide a valid dispute ID (format: DSP12345678) or reference number.",
                             None, None, None, NoCtx))
                /\ chat_sessions' = chat_sessions
                /\ disputes' = disputes]_vars

C30_Witness_StoredDisputeFound ==
    /\ last.op = "process_message"
    /\ last.context # None
    /\ last.message = "dsp0b7e55aa"
    /\ chat_sessions = [s \in {last.session_id} |-> Session("track_dispute", FormAfter(0))]
    /\ "DSP0B7E55AA" \in DOMAIN disputes
    /\ \E r \in response :
          r.response = "Dispute Status: Under Review ... Your dispute is being processed."

\* C31: at step description_input the description stored in dispute_form
\* is the message as the client sent it, character for character, and the
\* step becomes card_info.
C31_DescriptionStoredVerbatim ==
    [][HandledAtStep("description_input") =>
          LET sid == last'.session_id IN
          /\ StoredStep(chat_sessions', sid) = "card_info"
          /\ chat_sessions'[sid].dispute_form.description = Some(last'.message)]_vars

\* the characters of s that are digits, counted
RECURSIVE CountDigits(_)
CountDigits(s) ==
    IF Len(s) = 0 THEN 0
    ELSE (IF IsDigit(CharAt(s, 1)) THEN 1 ELSE 0) + CountDigits(Tail(s))

\* C32: at step date_input a message (as the handler receives it) is
\* accepted exactly when it holds at least one digit and its length is at
\* least 8: then it is stored as the date and the step becomes
\* description_input; every other message gets the re-prompt and leaves
\* the step at date_input and the form, the date field included, unchanged.
C32_DateAcceptedIffDigitAndLength ==
    [][HandledAtStep("date_input") =>
        LET sid == last'.session_id
            message == Normalise(last'.message)
            accepted == CountDigits(message) >= 1 /\ Len(message) >= 8
        IN /\ accepted
                 => chat_sessions'[sid]
                       = [chat_sessions[sid] EXCEPT
                             !.dispute_form.date = Some(message),
                             !.step = "description_input"]
           /\ ~accepted
                 => /\ chat_sessions' = chat_sessions
                    /\ chat_sessions'[sid].step = "date_input"
                    /\ \A r \in response' : r.response =
                          "Please provide a valid date (e.g., 2024-01-15, 15/01/2024, or 15 Jan 2024)"
           /\ disputes' = disputes]_vars

C32_Witness_ShortDigitsRejected ==
    /\ last.op = "process_message"
    /\ last.context # None
    /\ last.message = "1234567"
    /\ chat_sessions = [s \in {last.session_id} |-> Session("date_input", FormAfter(3))]
    /\ chat_sessions[last.session_id].dispute_form.date = None

(***************************************************************************)
(* cleanup_old_sessions among the other session operations: the store of   *)
(* InitEvict receives chat messages, update_session, delete_session and    *)
(* cleanup_old_sessions calls, several of them in a run.                   *)
(***************************************************************************)
\* bound on the number of direct store calls of such a run
MaxCleanupCalls == 3

CleanupSeed ==
    \E session_id \in ActiveIds :
        /\ nstore < MaxCleanupCalls
        /\ nstore' = nstore + 1
        /\ chat_sessions' = update_session(chat_sessions, session_id,
                                           Session("card_info", FormAfter(5)))
        /\ last' = SessionCall("update_session", session_id)
        /\ response' = None
        /\ session_keys' = KeysAfter(session_keys, chat_sessions')
        /\ UNCHANGED <<disputes, nmsg, pc, auth_vars>>

CleanupDelete ==
    \E session_id \in ActiveIds :
        /\ nstore < MaxCleanupCalls
        /\ nstore' = nstore + 1
        /\ chat_sessions' = delete_session(chat_sessions, session_id)
        /\ last' = SessionCall("delete_session", session_id)
        /\ response' = None
        /\ session_keys' = KeysAfter(session_keys, chat_sessions')
        /\ UNCHANGED <<disputes, nmsg, pc, auth_vars>>

CleanupCall ==
    /\ nstore < MaxCleanupCalls
    /\ nstore' = nstore + 1
    /\ chat_sessions' = cleanup_old_sessions(chat_sessions, session_keys)
    /\ last' = [NoCall EXCEPT !.op = "cleanup_old_sessions"]
    /\ response' = None
    /\ session_keys' = KeysAfter(session_keys, chat_sessions')
    /\ UNCHANGED <<disputes, nmsg, pc, auth_vars>>

CleanupNext == EvictChat \/ CleanupSeed \/ CleanupDelete \/ CleanupCall

SpecCleanup == InitEvict /\ [][CleanupNext]_vars

\* C33: cleanup_old_sessions changes the session store only when it holds
\* more than 100 sessions: it then removes exactly the floor(n/2)
\* earliest-inserted sessions, whatever their step, and leaves the other
\* sessions as they were; with 100 sessions or fewer it changes nothing.
\* The dispute store is unchanged in both cases.
C33_CleanupEvictsOldestHalf ==
    [][(last'.op = "cleanup_old_sessions" /\ nstore' = nstore + 1) =>
        LET n == Cardinality(DOMAIN chat_sessions) IN
        /\ Len(session_keys) = n
        /\ n <= 100 => chat_sessions' = chat_sessions
        /\ n > 100 =>
              /\ DOMAIN chat_sessions'
                    = {session_keys[i] : i \in ((n \div 2) + 1)..n}
              /\ Cardinality(DOMAIN chat_sessions') = n - (n \div 2)
              /\ \A k \in DOMAIN chat_sessions' : chat_sessions'[k] = chat_sessions[k]
        /\ disputes' = disputes]_vars

C33_Witness_OldestHalfEvicted ==
    /\ last.op = "cleanup_old_sessions"
    /\ Cardinality(DOMAIN chat_sessions) = NumClients - (NumClients \div 2)
    /\ ClientId(1) \notin DOMAIN chat_sessions
    /\ chat_sessions[ClientId(NumClients)].step = "card_info"
    /\ DOMAIN disputes # {}

\* C34: at step dispute_type a message that is empty after trimming is a
\* mismatch: no type is stored, the step stays dispute_type and the reply
\* is the re-prompt listing the dispute types.
C34_EmptyMessageIsMismatch ==
    [][(HandledAtStep("dispute_type") /\ Strip(last'.message) = "") =>
          LET sid == last'.session_id IN
          /\ chat_sessions'[sid].step = "dispute_type"
          /\ chat_sessions'[sid].dispute_form.type = chat_sessions[sid].dispute_form.type
          /\ response' = Some(ChatResponse(
                 "Please select one of the dispute types from the options below:",
                 Some(DisputeType), None, None, Ctx(sid)))]_vars

(***************************************************************************)
(* Two chat requests for one session id in flight at once.  The endpoints  *)
(* are coroutines of one event loop: a request runs until it awaits        *)
(* something that really suspends, and that is only the HTTP call of       *)
(* OllamaService.get_ai_response (MCPServer.get_guidance_steps, awaited    *)
(* inside create_dispute, is a coroutine without an await of its own, so   *)
(* it runs through).  Here last holds the two requests and the stores as   *)
(* they were when the requests arrived, pc the position and the local      *)
(* variable session of each request, response the reply of each request.   *)
(***************************************************************************)
Requests == {1, 2}

ConcMessages == {"1234", "Hello", "5000", "Report a Dispute", "ATM Dispute"}

\* process_message reaches an await of get_ai_response: _handle_greeting
\* without a greeting keyword (from step greeting, or from _handle_main_menu
\* without 'report a dispute'), or the else branch of the routing
AwaitsAi(session_id, raw, context, cs) ==
    LET message == Normalise(raw)
        step == IF get_session(cs, session_id) = None
                THEN NewSession.step
                ELSE cs[session_id].step
    IN /\ context # None
       /\ \/ step = "greeting" /\ ~AnyIn(GreetingWords, message)
          \/ /\ step = "main_menu"
             /\ ~Contains("report a dispute", message)
             /\ ~AnyIn(GreetingWords, message)
          \/ /\ step \notin Steps
             /\ ~Contains("report a dispute", message)
             /\ ~Contains("track existing dispute", message)
             /\ ~Contains("get guidance", message)
             /\ ~Contains("emergency help", message)

\* a handler that writes its session back to the store after the AI call
AfterAi_writes_back(session_id, session, cs) ==
    update_session(cs, session_id, session)

\* the session store after the AI call returned: the handler builds its
\* reply and writes nothing
AfterAi(session_id, session, cs) == cs

\* a request runs from its start to its first suspension, or to its end
ConcStart(r) ==
    LET req == last.requests[r]
        cs1 == IF get_session(chat_sessions, req.session_id) = None
               THEN create_session(chat_sessions, req.session_id)
               ELSE chat_sessions
    IN /\ pc[r].stage = "received"
       /\ IF AwaitsAi(req.session_id, req.message, req.context, chat_sessions)
          THEN /\ chat_sessions' = cs1
               /\ disputes' = disputes
               /\ response' = response
               /\ pc' = [pc EXCEPT ![r] = [stage |-> "awaiting",
                                           session |-> Some(cs1[req.session_id])]]
          ELSE \E res \in process_message(req.session_id, req.message, req.context,
                                          chat_sessions, disputes) :
                  /\ chat_sessions' = res.chat_sessions
                  /\ disputes' = res.disputes
                  /\ response' = [response EXCEPT ![r] = res.response]
                  /\ pc' = [pc EXCEPT ![r] = [stage |-> "done", session |-> None]]
       /\ session_keys' = KeysAfter(session_keys, chat_sessions')
       /\ UNCHANGED <<last, nmsg, nstore, auth_vars>>

\* the AI call of a suspended request returns and the request runs to its end
ConcResume(r) ==
    LET req == last.requests[r]
        session == TheValue(pc[r].session)
        mine == update_session(EmptyDict, req.session_id, session)
    IN /\ pc[r].stage = "awaiting"
       /\ \E res \in process_message(req.session_id, req.message, req.context,
                                     mine, disputes) :
             response' = [response EXCEPT ![r] = res.response]
       /\ chat_sessions' = AfterAi(req.session_id, session, chat_sessions)
       /\ pc' = [pc EXCEPT ![r] = [stage |-> "done", session |-> None]]
       /\ session_keys' = KeysAfter(session_keys, chat_sessions')
       /\ UNCHANGED <<disputes, last, nmsg, nstore, auth_vars>>

ConcNext == \E r \in Requests : ConcStart(r) \/ ConcResume(r)

InitConc ==
    /\ AuthIdle
    /\ chat_sessions \in {EmptyDict}
          \cup {update_session(EmptyDict, "s1", seed) : seed \in SeedSessions}
    /\ disputes = EmptyDict
    /\ \E requests \in [Requests -> [session_id : SessionIds,
                                     message : ConcMessages,
                                     context : RequestContexts]] :
          last = [requests |-> requests,
                  chat_sessions |-> chat_sessions,
                  disputes |-> disputes]
    /\ pc = [r \in Requests |-> [stage |-> "received", session |-> None]]
    /\ response = [r \in Requests |-> None]
    /\ nmsg = 0
    /\ nstore = 0
    /\ session_keys = KeysAfter(<< >>, chat_sessions)

SpecConc == InitConc /\ [][ConcNext]_vars

\* the stores after the two requests were processed one after the other,
\* first request a and then request b, from the stores they arrived at
SerialStores(a, b) ==
    {<<second.chat_sessions, second.disputes>> :
        second \in UNION {process_message(last.requests[b].session_id,
                                          last.requests[b].message,
                                          last.requests[b].context,
                                          first.chat_sessions, first.disputes) :
                          first \in process_message(last.requests[a].session_id,
                                                    last.requests[a].message,
                                                    last.requests[a].context,
                                                    last.chat_sessions, last.disputes)}}

\* both requests found the session at step card_info with a complete form
\* and carry a context dict
BothAtCardInfo ==
    /\ last.chat_sessions = update_session(EmptyDict, "s1", Session("card_info", FormAfter(5)))
    /\ \A r \in Requests :
          /\ last.requests[r].context # None
          /\ ~AnyIn(TriggerPhrases, Normalise(last.requests[r].message))

\* C35: with interleaving only at the awaits of the AI responder, once
\* both requests are done the session store and the dispute store are in
\* the state some serial order of the two messages leaves; two concurrent
\* card_info messages for one session create exactly one dispute record.
C35_InterleavingsAreSerial ==
    (\A r \in Requests : pc[r].stage = "done") =>
        /\ <<chat_sessions, disputes>> \in SerialStores(1, 2) \cup SerialStores(2, 1)
        /\ BothAtCardInfo => Cardinality(DOMAIN disputes) = 1

C35_Witness_ConcurrentCardInfo ==
    /\ \A r \in Requests : pc[r].stage = "done"
    /\ BothAtCardInfo
    /\ last.requests[1].message = "1234"
    /\ last.requests[2].message = "5000"
    /\ Cardinality(DOMAIN disputes) = 1
    /\ \E id \in DOMAIN disputes : disputes[id].cardlastfour = "5000"
    /\ chat_sessions = update_session(EmptyDict, "s1", NewSession)

(***************************************************************************)
(* routers/auth.py: the one-time passwords and the endpoints that use them. *)
(* SpecOtp runs the OTP endpoints against a store that starts empty.  The   *)
(* client that get_redis_client() hands to every endpoint is fixed for a    *)
(* run; its construction is not part of the sources, so a run starts with   *)
(* any of the clients the code distinguishes:                               *)
(*   "falsy"   - `not redis_client` holds: OTPs live in temp_otp_storage;   *)
(*   "decoded" - a redis client whose get() returns str;                    *)
(*   "raw"     - a redis client whose get() returns bytes, which never      *)
(*               compare equal to the str of the request.                   *)
(***************************************************************************)
Emails == {"a@example.com", "b@example.com"}

\* f"{random.randint(100000, 999999)}": two of the six-digit codes
OtpCodes == {"100000", "999999"}

Passwords == {"pw1", "pw2"}

RedisClients == {"falsy", "decoded", "raw"}

MaxAuthCalls == 4

\* generate_and_store_otp with the drawn code as a parameter: the stores after
\* the call (a redis set() overwrites the key and restarts its expiry).
generate_and_store_otp(email, otp, client, temp, redis) ==
    IF client = "falsy"
    THEN [temp |-> DictPut(temp, email, otp), redis |-> redis]
    ELSE [temp |-> temp, redis |-> DictPut(redis, email, otp)]

\* `stored_otp and stored_otp == otp` for the value the client's get() gave
StoredEquals(client, stored, otp) ==
    /\ stored # ""
    /\ client # "raw"
    /\ stored = otp

\* A verify_otp that leaves the stored OTP in place after a match.
verify_otp_keeps_otp(email, otp, client, temp, redis) ==
    LET store == IF client = "falsy" THEN temp ELSE redis
    IN [ok |-> email \in DOMAIN store /\ StoredEquals(client, store[email], otp),
        temp |-> temp, redis |-> redis]

\* verify_otp: the outcome and the stores after the call
verify_otp(email, otp, client, temp, redis) ==
    IF client = "falsy"
    THEN IF email \in DOMAIN temp /\ StoredEquals(client, temp[email], otp)
         THEN [ok |-> TRUE, temp |-> DictDel(temp, email), redis |-> redis]
         ELSE [ok |-> FALSE, temp |-> temp, redis |-> redis]
    ELSE IF email \in DOMAIN redis /\ StoredEquals(client, redis[email], otp)
         THEN [ok |-> TRUE, temp |-> temp, redis |-> DictDel(redis, email)]
         ELSE [ok |-> FALSE, temp |-> temp, redis |-> redis]

AuthCall(op, email, otp) == [op |-> op, email |-> email, otp |-> otp]

AuthFrame ==
    /\ nstore < MaxAuthCalls
    /\ nstore' = nstore + 1
    /\ UNCHANGED <<chat_sessions, disputes, session_keys, nmsg, pc, redis_client>>

\* POST /signup/otp
send_signup_otp(email) ==
    \E otp \in OtpCodes :
        LET g == generate_and_store_otp(email, otp, redis_client,
                                        temp_otp_storage, redis_otp)
        IN /\ AuthFrame
           /\ temp_otp_storage' = g.temp
           /\ redis_otp' = g.redis
           /\ users' = users
           /\ last' = AuthCall("send_signup_otp", email, otp)
           /\ response' = [success |-> TRUE, message |-> "OTP sent to your email address"]

\* POST /forgot-password/otp
send_forgot_password_otp(email) ==
    \E otp \in OtpCodes :
        LET g == generate_and_store_otp(email, otp, redis_client,
                                        temp_otp_storage, redis_otp)
        IN /\ AuthFrame
           /\ users' = users
           /\ IF email \notin DOMAIN users
              THEN /\ UNCHANGED <<temp_otp_storage, redis_otp>>
                   /\ last' = AuthCall("send_forgot_password_otp", email, "")
                   /\ response' = [success |-> FALSE,
                                   message |-> "No account found with this email address"]
              ELSE /\ temp_otp_storage' = g.temp
                   /\ redis_otp' = g.redis
                   /\ last' = AuthCall("send_forgot_password_otp", email, otp)
                   /\ response' = [success |-> TRUE,
                                   message |-> "Password reset OTP sent to your email address"]

\* POST /signup/verify-otp
verify_signup_otp(email, otp) ==
    LET v == verify_otp(email, otp, redis_client, temp_otp_storage, redis_otp)
    IN /\ AuthFrame
       /\ temp_otp_storage' = v.temp
       /\ redis_otp' = v.redis
       /\ users' = users
       /\ last' = AuthCall("verify_signup_otp", email, otp)
       /\ response' = IF v.ok
                      THEN [success |-> TRUE, message |-> "OTP verified successfully"]
                      ELSE [success |-> FALSE, message |-> "Invalid or expired OTP"]

\* POST /forgot-password/verify-otp
verify_forgot_password_otp(email, otp) ==
    LET v == verify_otp(email, otp, redis_client, temp_otp_storage, redis_otp)
    IN /\ AuthFrame
       /\ temp_otp_storage' = v.temp
       /\ redis_otp' = v.redis
       /\ users' = users
       /\ last' = AuthCall("verify_forgot_password_otp", email, otp)
       /\ response' = IF v.ok
                      THEN [success |-> TRUE, message |-> "OTP verified successfully"]
                      ELSE [success |-> FALSE, message |-> "Invalid or expired OTP"]

\* POST /signup
sign_up(email, otp, password) ==
    LET v == verify_otp(email, otp, redis_client, temp_otp_storage, redis_otp)
    IN /\ AuthFrame
       /\ last' = AuthCall("sign_up", email, otp)
       /\ IF email \in DOMAIN users
          THEN /\ UNCHANGED <<temp_otp_storage, redis_otp, users>>
               /\ response' = [success |-> FALSE,
                               message |-> "User with this email already exists"]
          ELSE /\ temp_otp_storage' = v.temp
               /\ redis_otp' = v.redis
               /\ IF ~v.ok
                  THEN /\ users' = users
                       /\ response' = [success |-> FALSE,
                                       message |-> "Invalid or expired OTP"]
                  ELSE /\ users' = DictPut(users, email, password)
                       /\ response' = [success |-> TRUE,
                                       message |-> "Account created successfully"]

\* POST /reset-password
reset_password(email, otp, new_password) ==
    LET v == verify_otp(email, otp, redis_client, temp_otp_storage, redis_otp)
    IN /\ AuthFrame
       /\ last' = AuthCall("reset_password", email, otp)
       /\ temp_otp_storage' = v.temp
       /\ redis_otp' = v.redis
       /\ IF ~v.ok
          THEN /\ users' = users
               /\ response' = [success |-> FALSE, message |-> "Invalid or expired OTP"]
          ELSE IF email \notin DOMAIN users
          THEN /\ users' = users
               /\ response' = [success |-> FALSE, message |-> "User not found"]
          ELSE /\ users' = DictPut(users, email, new_password)
               /\ response' = [success |-> TRUE,
                               message |-> "Password reset successfully"]

\* The redis server drops the key otp:{email} when its expiry (ex=...) runs out.
OtpExpires(email) ==
    /\ email \in DOMAIN redis_otp
    /\ redis_otp' = DictDel(redis_otp, email)
    /\ last' = AuthCall("expire", email, "")
    /\ UNCHANGED <<chat_sessions, disputes, session_keys, nmsg, nstore, pc, response,
                   temp_otp_storage, redis_client, users>>

InitOtp ==
    /\ chat_sessions = EmptyDict
    /\ disputes = EmptyDict
    /\ session_keys = << >>
    /\ last = NoCall
    /\ response = None
    /\ nmsg = 0
    /\ nstore = 0
    /\ pc = -1
    /\ temp_otp_storage = EmptyDict
    /\ redis_otp = EmptyDict
    /\ redis_client \in RedisClients
    /\ users \in {EmptyDict, DictPut(EmptyDict, "a@example.com", "pw1")}

OtpNext ==
    \E email \in Emails :
        \/ send_signup_otp(email)
        \/ send_forgot_password_otp(email)
        \/ \E otp \in OtpCodes : verify_signup_otp(email, otp)
        \/ \E otp \in OtpCodes : verify_forgot_password_otp(email, otp)
        \/ \E otp \in OtpCodes, password \in Passwords : sign_up(email, otp, password)
        \/ \E otp \in OtpCodes, password \in Passwords : reset_password(email, otp, password)
        \/ OtpExpires(email)

SpecOtp == InitOtp /\ [][OtpNext]_vars

\* The store verify_otp reads under the configured client, and the OTP it
\* holds for an email (None when there is none).
OtpStore == IF redis_client = "falsy" THEN temp_otp_storage ELSE redis_otp

StoredOtp(email) == IF email \in DOMAIN OtpStore THEN Some(OtpStore[email]) ELSE None

AuthStep == nstore' = nstore + 1

VerifyOps == {"verify_signup_otp", "verify_forgot_password_otp"}

SendOps == {"send_signup_otp", "send_forgot_password_otp"}

\* C36: when a verify-otp request has just succeeded for an email and a code,
\* the very next request, a signup (for an email without an account) or a
\* reset-password (for an email with an account) presenting the same email and
\* code, is accepted.
C36_VerifiedOtpIsAccepted ==
    [][(/\ AuthStep
        /\ last.op \in VerifyOps
        /\ response.success
        /\ last'.email = last.email
        /\ last'.otp = last.otp
        /\ \/ last'.op = "sign_up" /\ last.email \notin DOMAIN users
           \/ last'.op = "reset_password" /\ last.email \in DOMAIN users)
       => response'.success]_vars

\* C37: in every verify-otp request: a success happens only when the code is
\* the one stored for that very email, and it removes that stored OTP; a
\* failure leaves the stored OTPs unchanged; with no OTP stored for the email
\* the request fails; no request touches the OTP stored for another email; and
\* in every request an OTP appears for an email only through a send-otp
\* request for that email.
C37_OtpIsSingleUse ==
    [][AuthStep =>
        \A email \in Emails :
            /\ (last'.op \in VerifyOps /\ last'.email = email)
                  => /\ response'.success
                          => /\ StoredOtp(email) = Some(last'.otp)
                             /\ StoredOtp(email)' = None
                     /\ ~response'.success => OtpStore' = OtpStore
                     /\ StoredOtp(email) = None => ~response'.success
                     /\ \A e \in Emails \ {email} : StoredOtp(e)' = StoredOtp(e)
            /\ (StoredOtp(email)' # None /\ StoredOtp(email)' # StoredOtp(email))
                  => last'.op \in SendOps /\ last'.email = email]_vars

\* A verify-otp request has just succeeded for one email and used up its OTP,
\* while the OTP of the other email is still stored.
C37_Witness_OtpUsedUp ==
    /\ last.op \in VerifyOps
    /\ response.success
    /\ StoredOtp(last.email) = None
    /\ \E e \in Emails \ {last.email} : StoredOtp(e) # None

====
